---- MODULE Spec2Model ----
(***************************************************************************)
(* Model of the recurring execution engine of the crypto news summarizer:  *)
(* src/src/scheduler.py, class Scheduler.                                  *)
(*                                                                         *)
(* Two concurrency domains: the foreground caller (start, stop,            *)
(* get_next_run) and the background loops (_run_scheduler), one per        *)
(* successful start().  The fields running / next_run / thread are shared  *)
(* without any lock, so the steps of the loops interleave freely with the  *)
(* caller's operations.                                                     *)
(*                                                                         *)
(* Time.  The clock is counted in hours.  Every stored timestamp is kept   *)
(* relative to the current instant: the value v denotes the instant        *)
(* "now + v hours", so datetime.now() is 0 (Now) and the passing of one    *)
(* hour (Advance) lowers every stored timestamp by one.  A timestamp is    *)
(* lowered only as far as the code can tell it from a later one: next_run  *)
(* is only compared with now, so a next_run that has been reached stays at *)
(* Now; the loop's `now` is only used as now + interval, so it stays at    *)
(* -Interval; the start of an execution is kept one hour further, which    *)
(* tells a run that took longer than the interval from one that did not.   *)
(***************************************************************************)
EXTENDS Integers, Sequences, FiniteSets

\* ---- bounds of the model -------------------------------------------------
MaxThreads == 2
Interval == 1

Threads == 1..MaxThreads

\* ---- optional values (None / a value) ------------------------------------
None == <<>>
Some(v) == <<v>>
Val(o) == o[1]

\* ---- timestamps -----------------------------------------------------------
Now == 0
Elapse(o, floor) ==
  IF o = None THEN None ELSE Some(IF Val(o) > floor THEN Val(o) - 1 ELSE floor)
Timestamps == Now..(Now + Interval)
\* how a call of the task ends.  The call statement drops the value the task
\* returns, so a run that reports failure by its result is a return
Outcomes == {"returned", "raised"}

VARIABLES
  running,    \* self.running
  next_run,   \* self.next_run : None or Some(timestamp)
  thread,     \* self.thread   : None or Some(thread id)
  pc,         \* position of each background loop in _run_scheduler
  tnow,       \* the local variable `now` of each background loop
  caller,     \* position of the foreground caller: "idle" or "joining"
  ret,        \* the caller's last completed call and what it returned
  execStart,  \* history: when the execution in progress began
  long,       \* history: the loop's last execution took longer than Interval
  outcome     \* history: how the execution that has just ended, ended

\* the state of the Scheduler and of its loops
sched == <<running, next_run, thread, pc, tnow, caller, ret,
           execStart, long, outcome>>

VARIABLES
  channel,    \* is_crypto_relevant: the argument `channel`
  relevant    \* is_crypto_relevant: how the call ended

filter == <<channel, relevant>>

VARIABLES
  search_queries,  \* find_crypto_channels: the argument, a list of queries
  max_channels,    \* find_crypto_channels: the argument
  all_channels,    \* find_crypto_channels: the list of relevant channels
  channels_by_id,  \* find_crypto_channels: the ids of the recorded channels
  queried,         \* number of iterations of `for query` completed
  discovered,      \* None, or Some(the list find_crypto_channels returned)
  searched,        \* history: the queries search_channels was called with
  found            \* history: the channels search_channels returned, in order

discovery == <<search_queries, max_channels, all_channels, channels_by_id,
               queried, discovered, searched, found>>

VARIABLES
  acq_channel,         \* download_channel_videos: the argument `channel`
  videos_per_channel,  \* download_channel_videos: the argument
  videos,              \* None, or Some(the list get_channel_videos returned)
  downloaded_videos,   \* download_channel_videos: the videos with a path
  downloaded,          \* None, or Some(the list the function returned)
  attempted,           \* history: the videos download_video was called with
  acquired             \* history: what each of these calls returned

acquisition == <<acq_channel, videos_per_channel, videos, downloaded_videos,
                 downloaded, attempted, acquired>>

VARIABLES
  args,           \* run_workflow: the argument, the command-line options
  wpc,            \* position of run_workflow
  wf_channels,    \* run_workflow: `channels`: None, or Some(the list found)
  handled,        \* number of iterations of `for channel` completed
  wf_videos,      \* run_workflow: `videos`, from acquisition to processing
  all_summaries,  \* run_workflow: the aggregated SummaryRecords
  attachments,    \* run_workflow: the attachments of the report e-mail
  returned,       \* None, or Some(what run_workflow returned)
  delivered,      \* history: None, or Some(what send_summary_report returned)
  fault,          \* history: None, or Some(the stage that raised)
  begun,          \* history: the stages that have begun
  stage,          \* history: the stage of the latest step
  acquired_total  \* history: the number of videos acquired so far

workflow == <<args, wpc, wf_channels, handled, wf_videos, all_summaries,
              attachments, returned, delivered, fault, begun, stage,
              acquired_total>>

VARIABLES
  pv_videos,         \* process_videos: the argument `videos`
  pv_done,           \* number of iterations of `for video` completed
  pv_pc,             \* position of process_videos within the iteration
  transcript,        \* process_videos: None, or Some(the extracted text)
  summary_info,      \* process_videos: None, or Some(the SummaryRecord)
  processed_videos,  \* process_videos: the list of SummaryRecords
  processed,         \* None, or Some(the list process_videos returned)
  pv_fault,          \* history: None, or Some(the call that raised)
  pv_calls,          \* history: the collaborator calls and their outcomes
  model_calls,       \* history: the videos the model was invoked for
  model_failed       \* history: the videos the model failed for

processing == <<pv_videos, pv_done, pv_pc, transcript, summary_info,
                processed_videos, processed, pv_fault, pv_calls, model_calls,
                model_failed>>

VARIABLES
  video_title,          \* save_transcript, save_summary: video_info['title']
  video_id,             \* save_transcript, save_summary: video_info['id']
  sanitized,            \* None, or Some(_sanitize_filename(video_title))
  transcript_filename,  \* save_transcript: None, or Some(the file name)
  summary_filename      \* save_summary: None, or Some(the file name)

naming == <<video_title, video_id, sanitized, transcript_filename,
            summary_filename>>

VARIABLES
  world  \* None, or Some(what the collaborators answer during one batch run)

scenario == <<world>>

VARIABLES
  gcv_max_results,  \* get_channel_videos: the argument max_results
  playlist_items,   \* None (no channel, or HttpError), or Some(the items listed)
  gcv_pc,           \* position in get_channel_videos
  gcv_seen,         \* number of iterations of `for item` completed
  gcv_videos,       \* get_channel_videos: the list `videos`
  gcv_returned,     \* None, or Some(the list get_channel_videos returned)
  gcv_raised        \* an exception left get_channel_videos

channel_videos == <<gcv_max_results, playlist_items, gcv_pc, gcv_seen,
                    gcv_videos, gcv_returned, gcv_raised>>

\* the state of the pipeline functions of crypto_news_summarizer.py
pipeline == <<filter, discovery, acquisition, workflow, processing, naming,
              scenario, channel_videos>>

vars == <<sched, pipeline>>

state == <<running, next_run, thread>>
hist == <<execStart, long, outcome>>

\* "off": no thread of this identity exists (never launched, or terminated)
Alive(t) == pc[t] # "off"
Executing(t) == pc[t] \in {"exec0", "exec"}

Result(op, val) == [op |-> op, val |-> val]

\* Scheduler.__init__
SchedulerInit ==
  /\ running = FALSE
  /\ next_run = None
  /\ thread = None
  /\ pc = [t \in Threads |-> "off"]
  /\ tnow = [t \in Threads |-> None]
  /\ caller = "idle"
  /\ ret = Result("none", "None")
  /\ execStart = [t \in Threads |-> None]
  /\ long = [t \in Threads |-> FALSE]
  /\ outcome = [t \in Threads |-> "none"]

\* no call of a pipeline function is in progress
FilterIdle == channel = None /\ relevant = "idle"

DiscoveryIdle ==
  /\ search_queries = <<>>
  /\ max_channels = 0
  /\ all_channels = <<>>
  /\ channels_by_id = {}
  /\ queried = 0
  /\ discovered = None
  /\ searched = <<>>
  /\ found = <<>>

AcquisitionIdle ==
  /\ acq_channel = None
  /\ videos_per_channel = 0
  /\ videos = None
  /\ downloaded_videos = <<>>
  /\ downloaded = None
  /\ attempted = <<>>
  /\ acquired = <<>>

WorkflowIdle ==
  /\ args = None
  /\ wpc = "idle"
  /\ wf_channels = None
  /\ handled = 0
  /\ wf_videos = <<>>
  /\ all_summaries = <<>>
  /\ attachments = <<>>
  /\ returned = None
  /\ delivered = None
  /\ fault = None
  /\ begun = {}
  /\ stage = "none"
  /\ acquired_total = 0

ProcessingIdle ==
  /\ pv_videos = <<>>
  /\ pv_done = 0
  /\ pv_pc = "idle"
  /\ transcript = None
  /\ summary_info = None
  /\ processed_videos = <<>>
  /\ processed = None
  /\ pv_fault = None
  /\ pv_calls = <<>>
  /\ model_calls = {}
  /\ model_failed = {}

NamingIdle ==
  /\ video_title = <<>>
  /\ video_id = <<>>
  /\ sanitized = None
  /\ transcript_filename = None
  /\ summary_filename = None

ScenarioIdle == world = None

ListingIdle ==
  /\ gcv_max_results = 1
  /\ playlist_items = None
  /\ gcv_pc = "idle"
  /\ gcv_seen = 0
  /\ gcv_videos = <<>>
  /\ gcv_returned = None
  /\ gcv_raised = FALSE

PipelineIdle ==
  /\ FilterIdle /\ DiscoveryIdle /\ AcquisitionIdle /\ WorkflowIdle
  /\ ProcessingIdle /\ NamingIdle /\ ScenarioIdle /\ ListingIdle

\* a Scheduler whose task is left abstract (Outcomes)
Init == SchedulerInit /\ PipelineIdle

\* ---- foreground operations ------------------------------------------------

\* threading.Thread(target=self._run_scheduler, ...).start(): a new thread;
\* it takes the first identity that no living loop holds
Fresh(t) == ~Alive(t) /\ \A u \in Threads : u < t => Alive(u)

Launch(t) ==
  /\ pc' = [pc EXCEPT ![t] = "entry"]
  /\ UNCHANGED <<tnow, hist>>

\* start() without the "already running" rejection
StartUnguarded ==
  /\ caller = "idle"
  /\ \E t \in Threads :
       /\ Fresh(t)
       /\ running' = TRUE
       /\ next_run' = Some(Now)
       /\ thread' = Some(t)
       /\ Launch(t)
       /\ ret' = Result("start", "True")
       /\ UNCHANGED caller
  /\ UNCHANGED pipeline

\* Scheduler.start
Start ==
  /\ caller = "idle"
  /\ IF running
       THEN /\ ret' = Result("start", "False")
            /\ UNCHANGED <<state, pc, tnow, caller, hist>>
       ELSE \E t \in Threads :
            /\ Fresh(t)
            /\ running' = TRUE
            /\ next_run' = Some(Now)
            /\ thread' = Some(t)
            /\ Launch(t)
            /\ ret' = Result("start", "True")
            /\ UNCHANGED caller
  /\ UNCHANGED pipeline

\* stop() without the "not running" rejection
StopBeginUnguarded ==
  /\ caller = "idle"
  /\ running' = FALSE
  /\ IF thread # None
       THEN /\ caller' = "joining"
            /\ UNCHANGED <<thread, ret>>
       ELSE /\ ret' = Result("stop", "True")
            /\ UNCHANGED <<thread, caller>>
  /\ UNCHANGED <<next_run, pc, tnow, hist>>
  /\ UNCHANGED pipeline

\* Scheduler.stop up to the call of self.thread.join(timeout=1.0)
StopBegin ==
  /\ caller = "idle"
  /\ IF ~running
       THEN /\ ret' = Result("stop", "False")
            /\ UNCHANGED <<state, pc, tnow, caller, hist>>
       ELSE /\ running' = FALSE
            /\ IF thread # None
                 THEN /\ caller' = "joining"
                      /\ UNCHANGED <<thread, ret>>
                 ELSE /\ ret' = Result("stop", "True")
                      /\ UNCHANGED <<thread, caller>>
            /\ UNCHANGED <<next_run, pc, tnow, hist>>
  /\ UNCHANGED pipeline

\* stop() that ends the loop it has joined, whatever the loop is doing
StopJoinedKilling ==
  /\ caller = "joining"
  /\ thread' = None
  /\ caller' = "idle"
  /\ ret' = Result("stop", "True")
  /\ pc' = [pc EXCEPT ![Val(thread)] = "off"]
  /\ execStart' = [execStart EXCEPT ![Val(thread)] = None]
  /\ UNCHANGED <<running, next_run, tnow, long, outcome>>
  /\ UNCHANGED pipeline

\* Scheduler.stop from the return of join: the joined loop has ended, or the
\* one-second timeout has expired whatever the loop is doing
StopJoined ==
  /\ caller = "joining"
  /\ thread' = None
  /\ caller' = "idle"
  /\ ret' = Result("stop", "True")
  /\ UNCHANGED <<running, next_run, pc, tnow, hist>>
  /\ UNCHANGED pipeline

\* get_next_run() without the check of self.running
get_next_run_unchecked == next_run

\* Scheduler.get_next_run: the value returned in the current state
get_next_run == IF ~running THEN None ELSE next_run

\* get_next_run() that forgets the schedule of a stopped scheduler
GetNextRunClearing ==
  /\ caller = "idle"
  /\ ret' = Result("get_next_run",
                   IF get_next_run = None THEN "None" ELSE "datetime")
  /\ next_run' = IF ~running THEN None ELSE next_run
  /\ UNCHANGED <<running, thread, pc, tnow, caller, hist>>
  /\ UNCHANGED pipeline

GetNextRun ==
  /\ caller = "idle"
  /\ ret' = Result("get_next_run",
                   IF get_next_run = None THEN "None" ELSE "datetime")
  /\ UNCHANGED <<state, pc, tnow, caller, hist>>
  /\ UNCHANGED pipeline

\* Scheduler.get_status: the dictionary returned in the current state; the
\* next_run entry is the field itself, formatted, whatever running is
get_status ==
  [running |-> running,
   interval_hours |-> Interval,
   next_run |-> IF next_run # None THEN "datetime" ELSE "None"]

GetStatus ==
  /\ caller = "idle"
  /\ ret' = Result("get_status", "dict")
  /\ UNCHANGED <<state, pc, tnow, caller, hist>>
  /\ UNCHANGED pipeline

\* ---- the background loop ---------------------------------------------------

\* Scheduler._execute_task: task(*args, **kwargs) is called
BeginExec(t, at) ==
  /\ pc' = [pc EXCEPT ![t] = at]
  /\ execStart' = [execStart EXCEPT ![t] = Some(Now)]
  /\ long' = [long EXCEPT ![t] = FALSE]
  /\ UNCHANGED outcome

\* _execute_task without the try/except: an exception of the task ends the loop
EndExecUncaught(t, o, to) ==
  /\ pc' = [pc EXCEPT ![t] = IF o = "raised" THEN "off" ELSE to]
  /\ outcome' = [outcome EXCEPT ![t] = o]
  /\ long' = [long EXCEPT ![t] = Val(execStart[t]) < Now - Interval]
  /\ execStart' = [execStart EXCEPT ![t] = None]

\* Scheduler._execute_task: the task returns or raises; an exception is
\* caught and logged, and _execute_task returns to the loop at `to`
EndExec(t, o, to) ==
  /\ pc' = [pc EXCEPT ![t] = to]
  /\ outcome' = [outcome EXCEPT ![t] = o]
  /\ long' = [long EXCEPT ![t] = Val(execStart[t]) < Now - Interval]
  /\ execStart' = [execStart EXCEPT ![t] = None]

\* _run_scheduler, entry: self._execute_task(task, args, kwargs)
EntryExecute(t) ==
  /\ pc[t] = "entry"
  /\ BeginExec(t, "exec0")
  /\ UNCHANGED <<state, tnow, caller, ret>>
  /\ UNCHANGED pipeline

EntryExecuted(t) ==
  /\ pc[t] = "exec0"
  /\ \E o \in Outcomes : EndExec(t, o, "set0")
  /\ UNCHANGED <<state, tnow, caller, ret>>
  /\ UNCHANGED pipeline

\* the entry without the assignment: next_run stays at the time of start()
EntrySetNextRunMissing(t) ==
  /\ pc[t] = "set0"
  /\ next_run' = next_run
  /\ pc' = [pc EXCEPT ![t] = "while"]
  /\ outcome' = [outcome EXCEPT ![t] = "none"]
  /\ UNCHANGED <<running, thread, tnow, caller, ret, execStart, long>>
  /\ UNCHANGED pipeline

\* self.next_run = datetime.now() + timedelta(hours=self.interval_hours)
EntrySetNextRun(t) ==
  /\ pc[t] = "set0"
  /\ next_run' = Some(Now + Interval)
  /\ pc' = [pc EXCEPT ![t] = "while"]
  /\ outcome' = [outcome EXCEPT ![t] = "none"]
  /\ UNCHANGED <<running, thread, tnow, caller, ret, execStart, long>>
  /\ UNCHANGED pipeline

\* while self.running:
WhileRunning(t) ==
  /\ pc[t] = "while"
  /\ IF running
       THEN /\ pc' = [pc EXCEPT ![t] = "tick"]
            /\ UNCHANGED long
       ELSE /\ pc' = [pc EXCEPT ![t] = "off"]
            /\ long' = [long EXCEPT ![t] = FALSE]
  /\ UNCHANGED <<state, tnow, caller, ret, execStart, outcome>>
  /\ UNCHANGED pipeline

\* the comparison written as now > self.next_run
DueStrictly(now) == now > Val(next_run)

\* if now >= self.next_run:
Due(now) == now >= Val(next_run)

\* now = datetime.now(); if now >= self.next_run: self._execute_task(...)
Tick(t) ==
  /\ pc[t] = "tick"
  /\ IF Due(Now)
       THEN /\ tnow' = [tnow EXCEPT ![t] = Some(Now)]
            /\ BeginExec(t, "exec")
       ELSE /\ pc' = [pc EXCEPT ![t] = "sleep"]
            /\ long' = [long EXCEPT ![t] = FALSE]
            /\ UNCHANGED <<tnow, execStart, outcome>>
  /\ UNCHANGED <<state, caller, ret>>
  /\ UNCHANGED pipeline

TickExecuted(t) ==
  /\ pc[t] = "exec"
  /\ \E o \in Outcomes : EndExec(t, o, "set")
  /\ UNCHANGED <<state, tnow, caller, ret>>
  /\ UNCHANGED pipeline

\* the next run counted from the end of the execution, as on entry
TickSetNextRunFresh(t) ==
  /\ pc[t] = "set"
  /\ next_run' = Some(Now + Interval)
  /\ pc' = [pc EXCEPT ![t] = "sleep"]
  /\ tnow' = [tnow EXCEPT ![t] = None]
  /\ outcome' = [outcome EXCEPT ![t] = "none"]
  /\ UNCHANGED <<running, thread, caller, ret, execStart, long>>
  /\ UNCHANGED pipeline

\* self.next_run = now + timedelta(hours=self.interval_hours); the local
\* `now` is not read again before the next tick assigns it
TickSetNextRun(t) ==
  /\ pc[t] = "set"
  /\ next_run' = Some(Val(tnow[t]) + Interval)
  /\ pc' = [pc EXCEPT ![t] = "sleep"]
  /\ tnow' = [tnow EXCEPT ![t] = None]
  /\ outcome' = [outcome EXCEPT ![t] = "none"]
  /\ UNCHANGED <<running, thread, caller, ret, execStart, long>>
  /\ UNCHANGED pipeline

\* time.sleep(60) returns
Wake(t) ==
  /\ pc[t] = "sleep"
  /\ pc' = [pc EXCEPT ![t] = "while"]
  /\ UNCHANGED <<state, tnow, caller, ret, hist>>
  /\ UNCHANGED pipeline

\* ---- the clock --------------------------------------------------------------

\* one hour passes
Advance ==
  /\ next_run' = Elapse(next_run, Now)
  /\ tnow' = [t \in Threads |-> Elapse(tnow[t], Now - Interval)]
  /\ execStart' = [t \in Threads |-> Elapse(execStart[t], Now - Interval - 1)]
  /\ UNCHANGED <<running, thread, pc, caller, ret, long, outcome>>
  /\ UNCHANGED pipeline

Loop(t) ==
  \/ EntryExecute(t)
  \/ EntryExecuted(t)
  \/ EntrySetNextRun(t)
  \/ WhileRunning(t)
  \/ Tick(t)
  \/ TickExecuted(t)
  \/ TickSetNextRun(t)
  \/ Wake(t)

Next ==
  \/ Start
  \/ StopBegin
  \/ StopJoined
  \/ GetNextRun
  \/ GetStatus
  \/ \E t \in Threads : Loop(t)
  \/ Advance

Spec == Init /\ [][Next]_vars

\* the scheduler that is never stopped: start() and the two readers are the
\* only calls made
LiveNext ==
  \/ Start
  \/ GetNextRun
  \/ GetStatus
  \/ \E t \in Threads : Loop(t)
  \/ Advance

\* the loop is a thread of the process, which the operating system keeps
\* scheduling, and the clock keeps going; the task called by _execute_task
\* returns or raises (EntryExecuted and TickExecuted are steps of Loop)
LiveSpec ==
  /\ Init
  /\ [][LiveNext]_vars
  /\ \A t \in Threads : WF_vars(Loop(t))
  /\ WF_vars(Advance)

TypeOK ==
  /\ running \in BOOLEAN
  /\ next_run \in {None} \cup {Some(v) : v \in Timestamps}
  /\ thread \in {None} \cup {Some(t) : t \in Threads}
  /\ pc \in [Threads -> {"off", "entry", "exec0", "set0", "while", "tick",
                         "exec", "set", "sleep"}]
  /\ caller \in {"idle", "joining"}
  /\ long \in [Threads -> BOOLEAN]
  /\ outcome \in [Threads -> Outcomes \cup {"none"}]
\* ---- the relevance filter: is_crypto_relevant --------------------------------

\* crypto_keywords, in the order of the list
crypto_keywords ==
  << "crypto", "cryptocurrency", "bitcoin", "btc", "ethereum", "eth",
     "blockchain", "defi", "nft", "altcoin", "trading", "binance",
     "coinbase", "token", "mining", "wallet", "ledger", "trezor" >>

\* config.CHANNEL_RELEVANCE_THRESHOLD = 0.7, in tenths
ThresholdTenths == 7

\* A text is a set of words, each word written in lower or in upper case; the
\* words are the keywords themselves and one word that holds no keyword.
Cases == {"lower", "upper"}
Word(w, case) == <<w, case>>

\* str.lower()
Lower(text) == {Word(word[1], "lower") : word \in text}

\* `keyword in word` for a lower-case keyword: the comparison tells the cases
\* apart, and two keywords are part of a longer one
Contains(word, keyword) ==
  /\ word[2] = "lower"
  /\ \/ word[1] = keyword
     \/ <<word[1], keyword>> \in {<<"cryptocurrency", "crypto">>,
                                 <<"ethereum", "eth">>}

\* `keyword in text`
In(keyword, text) == \E word \in text : Contains(word, keyword)

\* the test of line 162 written with `and`
KeywordInBoth(keyword, title, description) ==
  In(keyword, title) /\ In(keyword, description)

\* if keyword in title or keyword in description
KeywordFound(keyword, title, description) ==
  In(keyword, title) \/ In(keyword, description)

\* the loop over crypto_keywords that counts keyword_matches, up to keyword i
RECURSIVE keyword_matches(_, _, _)
keyword_matches(i, title, description) ==
  IF i = 0 THEN 0
  ELSE keyword_matches(i - 1, title, description)
         + (IF KeywordFound(crypto_keywords[i], title, description)
              THEN 1 ELSE 0)

\* the score computed by an integer division
ReachesThresholdFloorDiv(matches) ==
  (matches \div Len(crypto_keywords)) * 10 >= ThresholdTenths

\* relevance_score = keyword_matches / len(crypto_keywords);
\* relevance_score >= config.CHANNEL_RELEVANCE_THRESHOLD
ReachesThreshold(matches) ==
  matches * 10 >= ThresholdTenths * Len(crypto_keywords)

\* is_crypto_relevant(channel): channel['title'] and channel['description']
\* raise KeyError when the dictionary has no such entry
is_crypto_relevant(ch) ==
  IF ch.title = None \/ ch.description = None THEN "KeyError"
  ELSE IF ReachesThreshold(
            keyword_matches(Len(crypto_keywords),
                            Lower(Val(ch.title)), Lower(Val(ch.description))))
         THEN "True" ELSE "False"

\* the texts a channel is given: the keywords from..to of the list, all in
\* one case, and optionally a word that is no keyword
Text(from, to, case, other) ==
  {Word(crypto_keywords[i], case) : i \in from..to}
    \cup (IF other THEN {Word("news", case)} ELSE {})

FilterInit ==
  /\ \E to \in 0..Len(crypto_keywords), case \in Cases, other \in BOOLEAN :
       \E title \in {None, Some(Text(1, to, case, other))} :
         \E from \in 1..(Len(crypto_keywords) + 1), dcase \in Cases :
           \E description \in {None, Some(Text(from, Len(crypto_keywords),
                                               dcase, FALSE))} :
             channel = [title |-> title, description |-> description]
  /\ relevant = "called"

IsCryptoRelevant ==
  /\ relevant = "called"
  /\ relevant' = is_crypto_relevant(channel)
  /\ UNCHANGED <<channel, sched, discovery, acquisition, workflow, processing,
               naming, scenario, channel_videos>>

FilterNext == IsCryptoRelevant

\* the call of the function, with nothing else in progress
FilterStart ==
  /\ SchedulerInit /\ FilterInit /\ DiscoveryIdle /\ AcquisitionIdle
  /\ WorkflowIdle /\ ProcessingIdle /\ NamingIdle /\ ScenarioIdle /\ ListingIdle

FilterSpec == FilterStart /\ [][FilterNext]_vars

\* ---- deduplicating discovery: find_crypto_channels ---------------------------

\* bounds: the longest list of queries, and the most channels one call of
\* search_channels returns
MaxQueries == 2
MaxResults == 2

\* the channels the search collaborator knows: two whose text holds every
\* keyword, one whose text holds none
ChannelIds == {"UC1", "UC2", "UC9"}
ChannelInfo(id) ==
  [id |-> id,
   title |-> Some(IF id = "UC9" THEN Text(1, 0, "upper", TRUE)
                                ELSE Text(1, Len(crypto_keywords), "upper", TRUE)),
   description |-> Some(Text(1, 0, "lower", TRUE))]

\* is_crypto_relevant(channel) for each of these channels
IsRelevant == [id \in ChannelIds |-> is_crypto_relevant(ChannelInfo(id)) = "True"]

\* the lists of at most n elements of S
RECURSIVE SeqsUpTo(_, _)
SeqsUpTo(S, n) ==
  IF n = 0 THEN {<<>>}
  ELSE LET shorter == SeqsUpTo(S, n - 1)
       IN  shorter \cup {Append(q, x) : q \in shorter, x \in S}

\* youtube_api.search_channels(query, max_results=max_channels): what it can
\* return: any list of channels, the empty list included
Responses == SeqsUpTo(ChannelIds, MaxResults)

\* the loop `for channel in channels` without the test of channels_by_id
RECURSIVE ScanChannelsNoDedup(_, _)
ScanChannelsNoDedup(channels, acc) ==
  IF channels = <<>> THEN acc
  ELSE LET channel_id == Head(channels)
       IN  ScanChannelsNoDedup(Tail(channels),
             IF IsRelevant[channel_id]
               THEN [all |-> Append(acc.all, channel_id),
                     by_id |-> acc.by_id \cup {channel_id}]
               ELSE acc)

\* for channel in channels: skip a recorded id; record and append a relevant
\* channel.  acc holds all_channels and the keys of channels_by_id
RECURSIVE ScanChannels(_, _)
ScanChannels(channels, acc) ==
  IF channels = <<>> THEN acc
  ELSE LET channel_id == Head(channels)
       IN  ScanChannels(Tail(channels),
             IF channel_id \in acc.by_id THEN acc
             ELSE IF IsRelevant[channel_id]
               THEN [all |-> Append(acc.all, channel_id),
                     by_id |-> acc.by_id \cup {channel_id}]
               ELSE acc)

\* min(a, b)
Shorter(a, b) == IF a < b THEN a ELSE b

\* the entries of a list
Range(list) == {list[i] : i \in 1..Len(list)}

\* list[:n] for n >= 0
Slice(list, n) == SubSeq(list, 1, IF n < Len(list) THEN n ELSE Len(list))

DiscoveryOnly ==
  UNCHANGED <<sched, filter, acquisition, workflow, processing, naming,
              scenario, channel_videos>>

DiscoveryInit ==
  /\ \E n \in 0..MaxQueries : search_queries = [i \in 1..n |-> i]
  /\ max_channels \in 0..(MaxResults + 1)
  /\ all_channels = <<>>
  /\ channels_by_id = {}
  /\ queried = 0
  /\ discovered = None
  /\ searched = <<>>
  /\ found = <<>>

\* one iteration of `for query in search_queries`
SearchQuery ==
  /\ discovered = None
  /\ queried < Len(search_queries)
  /\ \E channels \in Responses :
       LET query == search_queries[queried + 1]
           acc == ScanChannels(channels, [all |-> all_channels,
                                          by_id |-> channels_by_id])
       IN  /\ searched' = Append(searched, query)
           /\ found' = found \o channels
           /\ all_channels' = acc.all
           /\ channels_by_id' = acc.by_id
  /\ queried' = queried + 1
  /\ UNCHANGED <<search_queries, max_channels, discovered>>
  /\ DiscoveryOnly

\* the return as soon as max_channels channels are collected
ReturnChannelsEarly ==
  /\ discovered = None
  /\ queried = Len(search_queries) \/ Len(all_channels) >= max_channels
  /\ discovered' = Some(Slice(all_channels, max_channels))
  /\ UNCHANGED <<search_queries, max_channels, all_channels, channels_by_id,
                 queried, searched, found>>
  /\ DiscoveryOnly

\* return all_channels[:max_channels], once the list of queries is exhausted
ReturnChannels ==
  /\ discovered = None
  /\ queried = Len(search_queries)
  /\ discovered' = Some(Slice(all_channels, max_channels))
  /\ UNCHANGED <<search_queries, max_channels, all_channels, channels_by_id,
                 queried, searched, found>>
  /\ DiscoveryOnly

DiscoveryNext == SearchQuery \/ ReturnChannels

\* the call of the function, with nothing else in progress
DiscoveryStart ==
  /\ SchedulerInit /\ FilterIdle /\ DiscoveryInit /\ AcquisitionIdle
  /\ WorkflowIdle /\ ProcessingIdle /\ NamingIdle /\ ScenarioIdle /\ ListingIdle

DiscoverySpec == DiscoveryStart /\ [][DiscoveryNext]_vars

\* ---- per-channel acquisition: download_channel_videos ------------------------

\* bound: the most videos asked of one channel
MaxVideos == 3

\* the k-th recent video of a channel, and the file download_video stores it in
Video(channel_id, k) == <<channel_id, k>>
PathOf(video) == <<"downloads", video[1], video[2]>>

\* youtube_api.get_channel_videos(channel_id, max_results): what it can
\* return: the first n recent videos of the channel, n <= max_results
Listings(channel_id, max_results) ==
  {[k \in 1..n |-> Video(channel_id, k)] : n \in 0..max_results}

AcquisitionOnly ==
  UNCHANGED <<sched, filter, discovery, workflow, processing, naming,
              scenario, channel_videos>>

AcquisitionInit ==
  /\ acq_channel \in ChannelIds
  /\ videos_per_channel \in 1..MaxVideos
  /\ videos = None
  /\ downloaded_videos = <<>>
  /\ downloaded = None
  /\ attempted = <<>>
  /\ acquired = <<>>

\* videos = youtube_api.get_channel_videos(...); if not videos: return []
ListVideos ==
  /\ videos = None
  /\ \E listing \in Listings(acq_channel, videos_per_channel) :
       /\ videos' = Some(listing)
       /\ downloaded' = IF listing = <<>> THEN Some(<<>>) ELSE None
  /\ UNCHANGED <<acq_channel, videos_per_channel, downloaded_videos,
                 attempted, acquired>>
  /\ AcquisitionOnly

\* one iteration of `for video in videos` that gives up at the first video
\* download_video returns no path for
DownloadVideoUntilFailure ==
  /\ videos # None
  /\ downloaded = None
  /\ Len(attempted) < Len(Val(videos))
  /\ LET video == Val(videos)[Len(attempted) + 1]
     IN  \E video_path \in {None, Some(PathOf(video))} :
           /\ attempted' = Append(attempted, video)
           /\ acquired' = Append(acquired, video_path)
           /\ IF video_path # None
                THEN /\ downloaded_videos' =
                          Append(downloaded_videos,
                                 [id |-> video, download_path |-> Val(video_path)])
                     /\ UNCHANGED downloaded
                ELSE /\ downloaded' = Some(downloaded_videos)
                     /\ UNCHANGED downloaded_videos
  /\ UNCHANGED <<acq_channel, videos_per_channel, videos>>
  /\ AcquisitionOnly

\* one iteration of `for video in videos`: download_video returns a path or
\* None; a video with a path is annotated with it and appended
DownloadVideo ==
  /\ videos # None
  /\ downloaded = None
  /\ Len(attempted) < Len(Val(videos))
  /\ LET video == Val(videos)[Len(attempted) + 1]
     IN  \E video_path \in {None, Some(PathOf(video))} :
           /\ attempted' = Append(attempted, video)
           /\ acquired' = Append(acquired, video_path)
           /\ downloaded_videos' =
                IF video_path # None
                  THEN Append(downloaded_videos,
                              [id |-> video, download_path |-> Val(video_path)])
                  ELSE downloaded_videos
  /\ UNCHANGED <<acq_channel, videos_per_channel, videos, downloaded>>
  /\ AcquisitionOnly

\* return downloaded_videos
ReturnVideos ==
  /\ videos # None
  /\ downloaded = None
  /\ Len(attempted) = Len(Val(videos))
  /\ downloaded' = Some(downloaded_videos)
  /\ UNCHANGED <<acq_channel, videos_per_channel, videos, downloaded_videos,
                 attempted, acquired>>
  /\ AcquisitionOnly

AcquisitionNext == ListVideos \/ DownloadVideo \/ ReturnVideos

\* the call of the function, with nothing else in progress
AcquisitionStart ==
  /\ SchedulerInit /\ FilterIdle /\ DiscoveryIdle /\ AcquisitionInit
  /\ WorkflowIdle /\ ProcessingIdle /\ NamingIdle /\ ScenarioIdle /\ ListingIdle

AcquisitionSpec == AcquisitionStart /\ [][AcquisitionNext]_vars

\* ---- the batch orchestrator: run_workflow ------------------------------------

\* the entries of a list at the places K, in the order of the list
Restrict(list, K) ==
  LET kept[i \in 0..Len(list)] ==
        IF i = 0 THEN <<>>
        ELSE IF i \in K THEN Append(kept[i - 1], list[i]) ELSE kept[i - 1]
  IN  kept[Len(list)]

\* what find_crypto_channels can return: relevant channels, each id once
RelevantIds == {id \in ChannelIds : IsRelevant[id]}
DiscoveryResults ==
  {list \in SeqsUpTo(RelevantIds, Cardinality(RelevantIds)) :
     \A i, j \in 1..Len(list) : list[i] = list[j] => i = j}

\* what download_channel_videos can return: listed videos, in listing order
AcquisitionResults(channel_id, max_results) ==
  {Restrict(listing, K) : K \in SUBSET (1..max_results),
                          listing \in Listings(channel_id, max_results)}

\* what process_videos can return: a SummaryRecord for some of the videos, in
\* the order of the videos
ProcessingResults(list) == {Restrict(list, K) : K \in SUBSET (1..Len(list))}

WorkflowOnly ==
  UNCHANGED <<sched, filter, discovery, acquisition, processing, naming,
              scenario, channel_videos>>

WorkflowInit ==
  /\ args \in [skip_download : BOOLEAN, skip_email : BOOLEAN,
                videos_per_channel : 1..MaxVideos]
  /\ wpc = "construct"
  /\ wf_channels = None
  /\ handled = 0
  /\ wf_videos = <<>>
  /\ all_summaries = <<>>
  /\ attachments = <<>>
  /\ returned = None
  /\ delivered = None
  /\ fault = None
  /\ begun = {}
  /\ stage = "none"
  /\ acquired_total = 0

Enter(s) == begun' = begun \cup {s} /\ stage' = s

\* run_workflow without the try/except: the exception leaves the function
RaiseUncaught(s) ==
  /\ wpc' = "done"
  /\ returned' = Some("Exception")
  /\ fault' = Some(s)
  /\ Enter(s)
  /\ UNCHANGED <<args, wf_channels, handled, wf_videos, all_summaries,
                 attachments, delivered, acquired_total>>

\* an exception raised in stage s reaches `except Exception`, is logged, and
\* run_workflow returns False
Raise(s) ==
  /\ wpc' = "done"
  /\ returned' = Some("False")
  /\ fault' = Some(s)
  /\ Enter(s)
  /\ UNCHANGED <<args, wf_channels, handled, wf_videos, all_summaries,
                 attachments, delivered, acquired_total>>

\* return False / return True outside the handler
Return(value) ==
  /\ wpc' = "done"
  /\ returned' = Some(value)

\* the collaborators are constructed
Construct ==
  /\ wpc = "construct"
  /\ \/ /\ wpc' = "discover"
        /\ Enter("construct")
        /\ UNCHANGED <<args, wf_channels, handled, wf_videos, all_summaries,
                       attachments, returned, delivered, fault, acquired_total>>
     \/ Raise("construct")
  /\ WorkflowOnly

\* run_workflow without `if not channels: return False`, the empty discovery
\* taken for a success
DiscoverEmptySucceeds ==
  /\ wpc = "discover"
  /\ \/ /\ \E result \in DiscoveryResults :
             /\ wf_channels' = Some(result)
             /\ IF result = <<>>
                  THEN Return("True")
                  ELSE wpc' = "channels" /\ UNCHANGED returned
        /\ Enter("discover")
        /\ UNCHANGED <<args, handled, wf_videos, all_summaries, attachments,
                       delivered, fault, acquired_total>>
     \/ Raise("discover")
  /\ WorkflowOnly

\* channels = find_crypto_channels(...); if not channels: return False
Discover ==
  /\ wpc = "discover"
  /\ \/ /\ \E result \in DiscoveryResults :
             /\ wf_channels' = Some(result)
             /\ IF result = <<>>
                  THEN Return("False")
                  ELSE wpc' = "channels" /\ UNCHANGED returned
        /\ Enter("discover")
        /\ UNCHANGED <<args, handled, wf_videos, all_summaries, attachments,
                       delivered, fault, acquired_total>>
     \/ Raise("discover")
  /\ WorkflowOnly

\* the loop with `return False` in the place of `continue`
AcquireChannelAbortOnEmpty ==
  /\ wpc = "channels"
  /\ handled < Len(Val(wf_channels))
  /\ \/ /\ args.skip_download
        /\ handled' = handled + 1
        /\ UNCHANGED <<args, wpc, wf_channels, wf_videos, all_summaries,
                       attachments, returned, delivered, fault, begun, stage,
                       acquired_total>>
     \/ /\ ~args.skip_download
        /\ \E result \in AcquisitionResults(Val(wf_channels)[handled + 1],
                                             args.videos_per_channel) :
             /\ acquired_total' = acquired_total + Len(result)
             /\ IF result = <<>>
                  THEN /\ Return("False")
                       /\ UNCHANGED <<handled, wf_videos>>
                  ELSE /\ wf_videos' = result
                       /\ wpc' = "process"
                       /\ UNCHANGED <<handled, returned>>
        /\ Enter("acquire")
        /\ UNCHANGED <<args, wf_channels, all_summaries, attachments,
                       delivered, fault>>
     \/ /\ ~args.skip_download
        /\ Raise("acquire")
  /\ WorkflowOnly

\* for channel in channels: videos = [] when the download is skipped, else
\* download_channel_videos(...); if not videos: continue
AcquireChannel ==
  /\ wpc = "channels"
  /\ handled < Len(Val(wf_channels))
  /\ \/ /\ args.skip_download
        /\ handled' = handled + 1
        /\ UNCHANGED <<args, wpc, wf_channels, wf_videos, all_summaries,
                       attachments, returned, delivered, fault, begun, stage,
                       acquired_total>>
     \/ /\ ~args.skip_download
        /\ \E result \in AcquisitionResults(Val(wf_channels)[handled + 1],
                                             args.videos_per_channel) :
             /\ acquired_total' = acquired_total + Len(result)
             /\ IF result = <<>>
                  THEN /\ handled' = handled + 1
                       /\ UNCHANGED <<wpc, wf_videos>>
                  ELSE /\ wf_videos' = result
                       /\ wpc' = "process"
                       /\ UNCHANGED handled
        /\ Enter("acquire")
        /\ UNCHANGED <<args, wf_channels, all_summaries, attachments, returned,
                       delivered, fault>>
     \/ /\ ~args.skip_download
        /\ Raise("acquire")
  /\ WorkflowOnly

\* the summaries of a channel added to the aggregate twice
ProcessVideosExtendTwice ==
  /\ wpc = "process"
  /\ \/ /\ \E summaries \in ProcessingResults(wf_videos) :
             all_summaries' = all_summaries \o summaries \o summaries
        /\ wf_videos' = <<>>
        /\ handled' = handled + 1
        /\ wpc' = "channels"
        /\ Enter("process")
        /\ UNCHANGED <<args, wf_channels, attachments, returned, delivered,
                       fault, acquired_total>>
     \/ Raise("process")
  /\ WorkflowOnly

\* the summaries of a channel put in front of the aggregate
ProcessVideosPrepend ==
  /\ wpc = "process"
  /\ \/ /\ \E summaries \in ProcessingResults(wf_videos) :
             all_summaries' = summaries \o all_summaries
        /\ wf_videos' = <<>>
        /\ handled' = handled + 1
        /\ wpc' = "channels"
        /\ Enter("process")
        /\ UNCHANGED <<args, wf_channels, attachments, returned, delivered,
                       fault, acquired_total>>
     \/ Raise("process")
  /\ WorkflowOnly

\* summaries = process_videos(...); if summaries: all_summaries.extend(...)
ProcessVideos ==
  /\ wpc = "process"
  /\ \/ /\ \E summaries \in ProcessingResults(wf_videos) :
             all_summaries' = all_summaries \o summaries
        /\ wf_videos' = <<>>
        /\ handled' = handled + 1
        /\ wpc' = "channels"
        /\ Enter("process")
        /\ UNCHANGED <<args, wf_channels, attachments, returned, delivered,
                       fault, acquired_total>>
     \/ Raise("process")
  /\ WorkflowOnly

\* the loop left as soon as a channel has given a summary
AllChannelsHandledOrSome ==
  /\ wpc = "channels"
  /\ handled = Len(Val(wf_channels)) \/ all_summaries # <<>>
  /\ IF all_summaries = <<>>
       THEN Return("False")
       ELSE wpc' = "report" /\ UNCHANGED returned
  /\ UNCHANGED <<args, wf_channels, handled, wf_videos, all_summaries,
                 attachments, delivered, fault, begun, stage, acquired_total>>
  /\ WorkflowOnly

\* the loop over the channels is exhausted; if not all_summaries: return False
AllChannelsHandled ==
  /\ wpc = "channels"
  /\ handled = Len(Val(wf_channels))
  /\ IF all_summaries = <<>>
       THEN Return("False")
       ELSE wpc' = "report" /\ UNCHANGED returned
  /\ UNCHANGED <<args, wf_channels, handled, wf_videos, all_summaries,
                 attachments, delivered, fault, begun, stage, acquired_total>>
  /\ WorkflowOnly

\* run_workflow without the skip_email test: delivery is always attempted
GenerateReportsAlwaysDeliver ==
  /\ wpc = "report"
  /\ \/ /\ \E text_report_path \in {None, Some("crypto_report.txt")} :
             /\ wpc' = "deliver"
             /\ attachments' = IF text_report_path # None
                                 THEN <<Val(text_report_path)>> ELSE <<>>
             /\ UNCHANGED returned
        /\ Enter("report")
        /\ UNCHANGED <<args, wf_channels, handled, wf_videos, all_summaries,
                       delivered, fault, acquired_total>>
     \/ Raise("report")
  /\ WorkflowOnly

\* generate_report, generate_text_report; with skip_email: return True, else
\* the text report, when there is one, becomes the attachment
GenerateReports ==
  /\ wpc = "report"
  /\ \/ /\ \E text_report_path \in {None, Some("crypto_report.txt")} :
             IF args.skip_email
               THEN Return("True") /\ UNCHANGED attachments
               ELSE /\ wpc' = "deliver"
                    /\ attachments' = IF text_report_path # None
                                        THEN <<Val(text_report_path)>> ELSE <<>>
                    /\ UNCHANGED returned
        /\ Enter("report")
        /\ UNCHANGED <<args, wf_channels, handled, wf_videos, all_summaries,
                       delivered, fault, acquired_total>>
     \/ Raise("report")
  /\ WorkflowOnly

\* the result of send_summary_report is not looked at
SendReportUnchecked ==
  /\ wpc = "deliver"
  /\ \/ /\ \E email_success \in BOOLEAN :
             /\ delivered' = Some(email_success)
             /\ Return("True")
        /\ Enter("deliver")
        /\ UNCHANGED <<args, wf_channels, handled, wf_videos, all_summaries,
                       attachments, fault, acquired_total>>
     \/ Raise("deliver")
  /\ WorkflowOnly

\* email_success = email_sender.send_summary_report(...); return False when
\* it is false, True otherwise
SendReport ==
  /\ wpc = "deliver"
  /\ \/ /\ \E email_success \in BOOLEAN :
             /\ delivered' = Some(email_success)
             /\ Return(IF email_success THEN "True" ELSE "False")
        /\ Enter("deliver")
        /\ UNCHANGED <<args, wf_channels, handled, wf_videos, all_summaries,
                       attachments, fault, acquired_total>>
     \/ Raise("deliver")
  /\ WorkflowOnly

WorkflowNext ==
  \/ Construct
  \/ Discover
  \/ AcquireChannel
  \/ ProcessVideos
  \/ AllChannelsHandled
  \/ GenerateReports
  \/ SendReport

\* the call of the function, with nothing else in progress
WorkflowStart ==
  /\ SchedulerInit /\ FilterIdle /\ DiscoveryIdle /\ AcquisitionIdle
  /\ WorkflowInit /\ ProcessingIdle /\ NamingIdle /\ ScenarioIdle /\ ListingIdle

WorkflowSpec == WorkflowStart /\ [][WorkflowNext]_vars

\* ---- per-video processing: process_videos ------------------------------------

\* config.SUMMARY_MIN_LENGTH, the least number of words the model is given
SUMMARY_MIN_LENGTH == 100

\* A text is a list of tokens, each the word "w" or white space " "; the
\* empty list is the empty string
Words(n) == [i \in 1..n |-> "w"]
Blank == <<" ">>

\* text.split(): the words of the text
split(text) == SelectSeq(text, LAMBDA token : token # " ")

\* what extract_transcript can give: the empty string, white space, texts of
\* fewer words than the model is given and texts with enough of them
Transcripts ==
  {<<>>, Blank, Words(1), Blank \o Words(SUMMARY_MIN_LENGTH - 1),
   Words(SUMMARY_MIN_LENGTH), Words(SUMMARY_MIN_LENGTH + 1)}

\* what the model generates, and the literal returned when it fails
GeneratedSummaries == {<<"summary">>}
FailureMarker == <<"Error", " ", "generating", " ", "summary.">>

\* summarize without the test of the length: the model is given every text
summarizeAlways(text, generated) ==
  [summary |-> Some(IF generated = None THEN FailureMarker
                                         ELSE Val(generated)),
   model |-> TRUE]

\* summarize without the try/except: the error of the model leaves it
summarizeRaising(text, generated) ==
  IF text = <<>> \/ Len(split(text)) < SUMMARY_MIN_LENGTH
    THEN [summary |-> Some(text), model |-> FALSE]
    ELSE [summary |-> generated, model |-> TRUE]

\* ContentSummarizer.summarize: a text that is empty or has fewer words than
\* min_length is returned as it is; else the model is invoked (generated is
\* its summary, None when it raises) and a failure gives the marker.
\* summary: None when summarize raises, else Some(the text returned)
summarize(text, generated) ==
  IF text = <<>> \/ Len(split(text)) < SUMMARY_MIN_LENGTH
    THEN [summary |-> Some(text), model |-> FALSE]
    ELSE [summary |-> Some(IF generated = None THEN FailureMarker
                                                ELSE Val(generated)),
          model |-> TRUE]

\* ContentSummarizer.summarize_transcript: None for an empty transcript or
\* when summarize raises, else video_info with the transcript and the summary
summarize_transcript(video_info, text, generated) ==
  IF text = <<>> THEN None
  ELSE LET result == summarize(text, generated)
       IN  IF result.summary = None THEN None
           ELSE Some([id |-> video_info,
                      transcript |-> text,
                      summary |-> Val(result.summary)])

\* the four collaborator calls made for a video, in the order of the code
Stages == <<"extract_transcript", "save_transcript", "summarize_transcript",
            "save_summary">>

Call(video_info, stage_name, nonempty) ==
  [video |-> video_info, stage |-> stage_name, ok |-> nonempty]

ProcessingOnly ==
  UNCHANGED <<sched, filter, discovery, acquisition, workflow, naming,
              scenario, channel_videos>>

ProcessingInit ==
  /\ \E n \in 0..MaxVideos : pv_videos = [k \in 1..n |-> Video("UC1", k)]
  /\ pv_done = 0
  /\ pv_pc = "makedirs"
  /\ transcript = None
  /\ summary_info = None
  /\ processed_videos = <<>>
  /\ processed = None
  /\ pv_fault = None
  /\ pv_calls = <<>>
  /\ model_calls = {}
  /\ model_failed = {}

\* the position after `done` iterations of `for video in videos`
LoopAt(done) == IF done < Len(pv_videos) THEN "extract" ELSE "return"

\* the iteration ends without a SummaryRecord
NextVideo ==
  /\ pv_done' = pv_done + 1
  /\ pv_pc' = LoopAt(pv_done + 1)
  /\ transcript' = None
  /\ summary_info' = None

\* an exception leaves process_videos
RaiseFrom(stage_name) ==
  /\ pv_fault' = Some(stage_name)
  /\ pv_pc' = "done"
  /\ UNCHANGED <<pv_videos, pv_done, transcript, summary_info,
                 processed_videos, processed, pv_calls, model_calls,
                 model_failed>>

\* os.makedirs(transcript_dir, exist_ok=True); os.makedirs(summary_dir, ...)
MakeDirs ==
  /\ pv_pc = "makedirs"
  /\ \/ /\ pv_pc' = LoopAt(0)
        /\ UNCHANGED <<pv_videos, pv_done, transcript, summary_info,
                       processed_videos, processed, pv_fault, pv_calls,
                       model_calls, model_failed>>
     \/ RaiseFrom("makedirs")
  /\ ProcessingOnly

\* the loop left at the first video without a transcript
ExtractTranscriptBreak ==
  /\ pv_pc = "extract"
  /\ LET video_info == pv_videos[pv_done + 1]
     IN  \E result \in {None} \cup {Some(t) : t \in Transcripts} :
           LET nonempty == result # None /\ Val(result) # <<>>
           IN  /\ pv_calls' = Append(pv_calls,
                                Call(video_info, "extract_transcript", nonempty))
               /\ IF nonempty
                    THEN /\ transcript' = result
                         /\ pv_pc' = "save_transcript"
                         /\ UNCHANGED <<pv_done, summary_info>>
                    ELSE /\ pv_pc' = "return"
                         /\ UNCHANGED <<pv_done, transcript, summary_info>>
  /\ UNCHANGED <<pv_videos, processed_videos, processed, pv_fault,
                 model_calls, model_failed>>
  /\ ProcessingOnly

\* transcript = transcript_extractor.extract_transcript(video); if transcript:
ExtractTranscript ==
  /\ pv_pc = "extract"
  /\ LET video_info == pv_videos[pv_done + 1]
     IN  \E result \in {None} \cup {Some(t) : t \in Transcripts} :
           LET nonempty == result # None /\ Val(result) # <<>>
           IN  /\ pv_calls' = Append(pv_calls,
                                Call(video_info, "extract_transcript", nonempty))
               /\ IF nonempty
                    THEN /\ transcript' = result
                         /\ pv_pc' = "save_transcript"
                         /\ UNCHANGED <<pv_done, summary_info>>
                    ELSE NextVideo
  /\ UNCHANGED <<pv_videos, processed_videos, processed, pv_fault,
                 model_calls, model_failed>>
  /\ ProcessingOnly

\* the transcript is summarized whether or not it could be saved
SaveTranscriptIgnored ==
  /\ pv_pc = "save_transcript"
  /\ \/ /\ \E transcript_path \in {None, Some("transcript.txt")} :
             /\ pv_calls' = Append(pv_calls,
                              Call(pv_videos[pv_done + 1], "save_transcript",
                                   transcript_path # None))
             /\ pv_pc' = "summarize"
             /\ UNCHANGED <<pv_done, transcript, summary_info>>
        /\ UNCHANGED <<pv_videos, processed_videos, processed, pv_fault,
                       model_calls, model_failed>>
     \/ RaiseFrom("save_transcript")
  /\ ProcessingOnly

\* transcript_path = transcript_extractor.save_transcript(...);
\* if transcript_path: (the makedirs of save_transcript is outside its try)
SaveTranscript ==
  /\ pv_pc = "save_transcript"
  /\ \/ /\ \E transcript_path \in {None, Some("transcript.txt")} :
             /\ pv_calls' = Append(pv_calls,
                              Call(pv_videos[pv_done + 1], "save_transcript",
                                   transcript_path # None))
             /\ IF transcript_path # None
                  THEN /\ pv_pc' = "summarize"
                       /\ UNCHANGED <<pv_done, transcript, summary_info>>
                  ELSE NextVideo
        /\ UNCHANGED <<pv_videos, processed_videos, processed, pv_fault,
                       model_calls, model_failed>>
     \/ RaiseFrom("save_transcript")
  /\ ProcessingOnly

\* summary_info = content_summarizer.summarize_transcript(video, transcript);
\* if summary_info:
SummarizeTranscript ==
  /\ pv_pc = "summarize"
  /\ LET video_info == pv_videos[pv_done + 1]
     IN  \E generated \in {None} \cup {Some(g) : g \in GeneratedSummaries} :
           LET invoked == summarize(Val(transcript), generated).model
               result == summarize_transcript(video_info, Val(transcript),
                                              generated)
           IN  /\ model_calls' = IF invoked THEN model_calls \cup {video_info}
                                            ELSE model_calls
               /\ model_failed' = IF invoked /\ generated = None
                                    THEN model_failed \cup {video_info}
                                    ELSE model_failed
               /\ pv_calls' = Append(pv_calls,
                                Call(video_info, "summarize_transcript",
                                     result # None))
               /\ IF result # None
                    THEN /\ summary_info' = result
                         /\ pv_pc' = "save_summary"
                         /\ UNCHANGED <<pv_done, transcript>>
                    ELSE NextVideo
  /\ UNCHANGED <<pv_videos, processed_videos, processed, pv_fault>>
  /\ ProcessingOnly

\* summary_path = content_summarizer.save_summary(summary_info, summary_dir);
\* if summary_path: the record, with its path, is appended
SaveSummary ==
  /\ pv_pc = "save_summary"
  /\ \/ /\ \E summary_path \in {None, Some("summary.txt")} :
             /\ pv_calls' = Append(pv_calls,
                              Call(pv_videos[pv_done + 1], "save_summary",
                                   summary_path # None))
             /\ processed_videos' =
                  IF summary_path # None
                    THEN Append(processed_videos,
                                [id |-> Val(summary_info).id,
                                 transcript |-> Val(summary_info).transcript,
                                 summary |-> Val(summary_info).summary,
                                 summary_path |-> Val(summary_path)])
                    ELSE processed_videos
             /\ NextVideo
        /\ UNCHANGED <<pv_videos, processed, pv_fault, model_calls,
                       model_failed>>
     \/ RaiseFrom("save_summary")
  /\ ProcessingOnly

\* return processed_videos
ReturnProcessed ==
  /\ pv_pc = "return"
  /\ processed' = Some(processed_videos)
  /\ pv_pc' = "done"
  /\ UNCHANGED <<pv_videos, pv_done, transcript, summary_info,
                 processed_videos, pv_fault, pv_calls, model_calls,
                 model_failed>>
  /\ ProcessingOnly

ProcessingNext ==
  \/ MakeDirs
  \/ ExtractTranscript
  \/ SaveTranscript
  \/ SummarizeTranscript
  \/ SaveSummary
  \/ ReturnProcessed

\* the call of the function, with nothing else in progress
ProcessingStart ==
  /\ SchedulerInit /\ FilterIdle /\ DiscoveryIdle /\ AcquisitionIdle
  /\ WorkflowIdle /\ ProcessingInit /\ NamingIdle /\ ScenarioIdle /\ ListingIdle

ProcessingSpec == ProcessingStart /\ [][ProcessingNext]_vars

\* ---- file names: save_transcript, save_summary, _sanitize_filename -----------

\* bound: the longest pattern a title repeats, and how far the lengths of the
\* titles go beyond the limit of _sanitize_filename
MaxUnit == 2

\* `if len(filename) > 100: filename = filename[:100]`
NameLimit == 100

\* A string is the list of its characters
invalid_chars == <<"<", ">", ":", "\"", "/", "\\", "|", "?", "*">>

\* filename.replace(char, '_')
replace(filename, char) ==
  [i \in 1..Len(filename) |-> IF filename[i] = char THEN "_" ELSE filename[i]]

\* for char in invalid_chars: filename = filename.replace(char, '_'), the
\* first k characters of invalid_chars done
RECURSIVE ReplaceInvalid(_, _)
ReplaceInvalid(filename, k) ==
  IF k = 0 THEN filename
  ELSE replace(ReplaceInvalid(filename, k - 1), invalid_chars[k])

\* TranscriptExtractor._sanitize_filename
sanitize_filename(filename) ==
  LET replaced == ReplaceInvalid(filename, Len(invalid_chars))
  IN  IF Len(replaced) > NameLimit THEN SubSeq(replaced, 1, NameLimit)
                                   ELSE replaced

\* the replacement without `if len(filename) > 100: filename = filename[:100]`
sanitize_unlimited(filename) == ReplaceInvalid(filename, Len(invalid_chars))

\* VideoDownloader._sanitize_filename
downloader_sanitize_filename(filename) ==
  LET replaced == ReplaceInvalid(filename, Len(invalid_chars))
  IN  IF Len(replaced) > NameLimit THEN SubSeq(replaced, 1, NameLimit)
                                   ELSE replaced

\* ContentSummarizer._sanitize_filename
summarizer_sanitize_filename(filename) ==
  LET replaced == ReplaceInvalid(filename, Len(invalid_chars))
  IN  IF Len(replaced) > NameLimit THEN SubSeq(replaced, 1, NameLimit)
                                   ELSE replaced

transcript_suffix ==
  <<"_", "t", "r", "a", "n", "s", "c", "r", "i", "p", "t", ".", "t", "x", "t">>
summary_suffix ==
  <<"_", "s", "u", "m", "m", "a", "r", "y", ".", "t", "x", "t">>

\* the limit applied to the whole file name
FileNameTruncated(name, id, suffix) ==
  LET whole == name \o <<"_">> \o id \o suffix
  IN  IF Len(whole) > NameLimit THEN SubSeq(whole, 1, NameLimit) ELSE whole

\* f"{self._sanitize_filename(video_title)}_{video_id}_transcript.txt", and
\* the same with _summary.txt
FileName(name, id, suffix) == name \o <<"_">> \o id \o suffix

\* the characters titles are made of: the invalid ones, a letter, the
\* underscore and the space
TitleChars == Range(invalid_chars) \cup {"a", "_", " "}

\* the titles: a pattern of at most MaxUnit characters, repeated up to a
\* length that is small or near the limit
Repeated(unit, n) == [i \in 1..n |-> unit[((i - 1) % Len(unit)) + 1]]
TitleLengths == (0..MaxUnit) \cup ((NameLimit - MaxUnit)..(NameLimit + MaxUnit))
Titles ==
  {Repeated(unit, n) : unit \in SeqsUpTo(TitleChars, MaxUnit) \ {<<>>},
                       n \in TitleLengths}

\* the ids of videos: characters of [A-Za-z0-9_-]
VideoIds == {<<"d", "Q", "w", "4", "w", "9", "W", "g", "X", "c", "Q">>,
             <<"-", "_">>}

NamingOnly ==
  UNCHANGED <<sched, filter, discovery, acquisition, workflow, processing,
              scenario, channel_videos>>

NamingInit ==
  /\ video_title \in Titles
  /\ video_id \in VideoIds
  /\ sanitized = None
  /\ transcript_filename = None
  /\ summary_filename = None

\* self._sanitize_filename(video_title), in any of the three classes
SanitizeTitle ==
  /\ sanitized = None
  /\ sanitized' \in {Some(downloader_sanitize_filename(video_title)),
                     Some(sanitize_filename(video_title)),
                     Some(summarizer_sanitize_filename(video_title))}
  /\ UNCHANGED <<video_title, video_id, transcript_filename, summary_filename>>
  /\ NamingOnly

\* save_transcript: transcript_filename = ...
NameTranscript ==
  /\ sanitized # None
  /\ transcript_filename = None
  /\ transcript_filename' =
       Some(FileName(Val(sanitized), video_id, transcript_suffix))
  /\ UNCHANGED <<video_title, video_id, sanitized, summary_filename>>
  /\ NamingOnly

\* save_summary: summary_filename = ...
NameSummary ==
  /\ sanitized # None
  /\ summary_filename = None
  /\ summary_filename' =
       Some(FileName(Val(sanitized), video_id, summary_suffix))
  /\ UNCHANGED <<video_title, video_id, sanitized, transcript_filename>>
  /\ NamingOnly

NamingNext == SanitizeTitle \/ NameTranscript \/ NameSummary

\* the saving of a video's files, with nothing else in progress
NamingStart ==
  /\ SchedulerInit /\ FilterIdle /\ DiscoveryIdle /\ AcquisitionIdle
  /\ WorkflowIdle /\ ProcessingIdle /\ NamingInit /\ ScenarioIdle /\ ListingIdle

NamingSpec == NamingStart /\ [][NamingNext]_vars

\* ---- listing a channel: get_channel_videos, get_video_info ---------------------

MIN_VIDEO_LENGTH_SECONDS == 300
MAX_VIDEO_LENGTH_SECONDS == 1800
MaxItems == 2

digits == <<"0", "1", "2", "3", "4", "5", "6", "7", "8", "9">>

\* the decimal writing of n < 100
Decimals(n) ==
  IF n < 10 THEN <<digits[n + 1]>>
            ELSE <<digits[(n \div 10) + 1], digits[(n % 10) + 1]>>

Part(n, unit) == IF n > 0 THEN Decimals(n) \o <<unit>> ELSE <<>>

\* contentDetails.duration as the API writes it for a video of d days, h
\* hours, m minutes and s seconds (ISO 8601, e.g. 'PT1H2M3S'; P0D for none)
Iso8601(d, h, m, s) ==
  IF d + h + m + s = 0
    THEN <<"P", "0", "D">>
    ELSE <<"P">> \o Part(d, "D")
           \o (IF h + m + s > 0
                 THEN <<"T">> \o Part(h, "H") \o Part(m, "M") \o Part(s, "S")
                 ELSE <<>>)

InSeconds(d, h, m, s) == ((d * 24 + h) * 60 + m) * 60 + s

\* the lengths of the videos listed, in days, hours, minutes, seconds: below,
\* at and above each end of the window, and some with no minutes or with days
Lengths ==
  {<<0, 0, 0, 0>>, <<0, 0, 0, 45>>, <<0, 0, 4, 59>>, <<0, 0, 5, 0>>,
   <<0, 0, 10, 30>>, <<0, 0, 30, 0>>, <<0, 0, 30, 1>>, <<0, 1, 0, 0>>,
   <<1, 0, 0, 0>>, <<1, 0, 10, 0>>}

\* what videos().list answers for an item of the playlist: nothing (no such
\* video, or an HttpError), or the video with its duration
PlaylistItem(exists, length) ==
  [found |-> exists,
   duration |-> Iso8601(length[1], length[2], length[3], length[4]),
   seconds |-> InSeconds(length[1], length[2], length[3], length[4])]

PlaylistItems ==
  {PlaylistItem(TRUE, length) : length \in Lengths}
    \cup {PlaylistItem(FALSE, <<0, 0, 0, 0>>)}

\* ch in text
contains(text, ch) == \E i \in 1..Len(text) : text[i] = ch

\* text.split(sep)
RECURSIVE split_on(_, _)
split_on(text, sep) ==
  IF contains(text, sep)
    THEN LET i == CHOOSE i \in 1..Len(text) :
                    text[i] = sep /\ \A j \in 1..(i - 1) : text[j] # sep
         IN  <<SubSeq(text, 1, i - 1)>>
               \o split_on(SubSeq(text, i + 1, Len(text)), sep)
    ELSE <<text>>

RECURSIVE DecimalValue(_)
DecimalValue(text) ==
  IF text = <<>> THEN 0
  ELSE 10 * DecimalValue(SubSeq(text, 1, Len(text) - 1))
         + (CHOOSE k \in 0..9 : digits[k + 1] = text[Len(text)])

\* int(text) for a text without sign or white space: Some(its value) when it
\* is a non-empty string of digits, None for the ValueError otherwise
int(text) ==
  IF text # <<>> /\ \A i \in 1..Len(text) : text[i] \in Range(digits)
    THEN Some(DecimalValue(text)) ELSE None

\* YouTubeAPI._parse_duration: Some(duration_seconds), or None when an int()
\* raises ValueError
parse_duration(duration_iso) ==
  LET duration == SubSeq(duration_iso, 3, Len(duration_iso))
      hours_split == split_on(duration, "H")
      hours == IF contains(duration, "H") THEN int(hours_split[1]) ELSE Some(0)
      after_hours == IF contains(duration, "H") THEN hours_split[2]
                                                ELSE duration
      minutes_split == split_on(after_hours, "M")
      minutes == IF contains(after_hours, "M") THEN int(minutes_split[1])
                                               ELSE Some(0)
      after_minutes == IF contains(after_hours, "M") THEN minutes_split[2]
                                                     ELSE after_hours
      seconds == IF contains(after_minutes, "S")
                   THEN int(split_on(after_minutes, "S")[1]) ELSE Some(0)
  IN  IF hours = None \/ minutes = None \/ seconds = None
        THEN None
        ELSE Some(Val(hours) * 3600 + Val(minutes) * 60 + Val(seconds))

\* get_video_info with the lower end of the window only
get_video_info_no_maximum(item_id, item) ==
  IF ~item.found
    THEN [raised |-> FALSE, video_info |-> None]
    ELSE LET duration_seconds == parse_duration(item.duration)
         IN  IF duration_seconds = None
               THEN [raised |-> TRUE, video_info |-> None]
               ELSE IF Val(duration_seconds) < MIN_VIDEO_LENGTH_SECONDS
                      THEN [raised |-> FALSE, video_info |-> None]
                      ELSE [raised |-> FALSE,
                            video_info |->
                              Some([id |-> item_id,
                                    duration |-> item.duration,
                                    duration_seconds |-> Val(duration_seconds)])]

\* YouTubeAPI.get_video_info: None when there is no such video (or on an
\* HttpError) and when the duration is outside the window; the ValueError of
\* _parse_duration is not caught
get_video_info(item_id, item) ==
  IF ~item.found
    THEN [raised |-> FALSE, video_info |-> None]
    ELSE LET duration_seconds == parse_duration(item.duration)
         IN  IF duration_seconds = None
               THEN [raised |-> TRUE, video_info |-> None]
               ELSE IF \/ Val(duration_seconds) < MIN_VIDEO_LENGTH_SECONDS
                       \/ Val(duration_seconds) > MAX_VIDEO_LENGTH_SECONDS
                      THEN [raised |-> FALSE, video_info |-> None]
                      ELSE [raised |-> FALSE,
                            video_info |->
                              Some([id |-> item_id,
                                    duration |-> item.duration,
                                    duration_seconds |-> Val(duration_seconds)])]

ListingOnly ==
  UNCHANGED <<sched, filter, discovery, acquisition, workflow, processing,
              naming, scenario>>

\* get_channel_videos(channel_id, max_results): playlistItems().list is asked
\* for maxResults=max_results items and answers with at most that many
ListingInit ==
  /\ gcv_max_results \in 1..MaxItems
  /\ playlist_items
       \in {None} \cup {Some(items) :
                          items \in SeqsUpTo(PlaylistItems, gcv_max_results)}
  /\ gcv_pc = "request"
  /\ gcv_seen = 0
  /\ gcv_videos = <<>>
  /\ gcv_returned = None
  /\ gcv_raised = FALSE

\* channel_info = ...; if not channel_info: return []; playlist_response =
\* ...execute(), whose HttpError gives return []
RequestPlaylist ==
  /\ gcv_pc = "request"
  /\ IF playlist_items = None
       THEN gcv_returned' = Some(<<>>) /\ gcv_pc' = "done"
       ELSE gcv_pc' = "items" /\ UNCHANGED gcv_returned
  /\ UNCHANGED <<gcv_max_results, playlist_items, gcv_seen, gcv_videos,
                 gcv_raised>>
  /\ ListingOnly

\* for item in items: video_info = self.get_video_info(video_id);
\* if video_info: videos.append(video_info)
GetVideoInfo ==
  /\ gcv_pc = "items"
  /\ gcv_seen < Len(Val(playlist_items))
  /\ LET result == get_video_info(gcv_seen + 1,
                                  Val(playlist_items)[gcv_seen + 1])
     IN  IF result.raised
           THEN /\ gcv_raised' = TRUE
                /\ gcv_pc' = "done"
                /\ UNCHANGED <<gcv_seen, gcv_videos>>
           ELSE /\ gcv_videos' = IF result.video_info # None
                                   THEN Append(gcv_videos,
                                               Val(result.video_info))
                                   ELSE gcv_videos
                /\ gcv_seen' = gcv_seen + 1
                /\ UNCHANGED <<gcv_pc, gcv_raised>>
  /\ UNCHANGED <<gcv_max_results, playlist_items, gcv_returned>>
  /\ ListingOnly

\* return videos
ReturnChannelVideos ==
  /\ gcv_pc = "items"
  /\ gcv_seen = Len(Val(playlist_items))
  /\ gcv_returned' = Some(gcv_videos)
  /\ gcv_pc' = "done"
  /\ UNCHANGED <<gcv_max_results, playlist_items, gcv_seen, gcv_videos,
                 gcv_raised>>
  /\ ListingOnly

ListingNext ==
  \/ RequestPlaylist
  \/ GetVideoInfo
  \/ ReturnChannelVideos

\* the call of the function, with nothing else in progress
ListingStart ==
  /\ SchedulerInit /\ FilterIdle /\ DiscoveryIdle /\ AcquisitionIdle
  /\ WorkflowIdle /\ ProcessingIdle /\ NamingIdle /\ ScenarioIdle
  /\ ListingInit

ListingSpec == ListingStart /\ [][ListingNext]_vars

\* ---- one batch run, the answers of the collaborators given -------------------

\* find_crypto_channels, the k first queries searched: responses[i] is what
\* search_channels returns for the i-th query
RECURSIVE ScanQueries(_, _)
ScanQueries(responses, k) ==
  IF k = 0 THEN [all |-> <<>>, by_id |-> {}]
  ELSE ScanChannels(responses[k], ScanQueries(responses, k - 1))

find_crypto_channels(responses, max) ==
  Slice(ScanQueries(responses, Len(responses)).all, max)

\* download_channel_videos that gives up at the first failed download
download_videos_until_failure(channel_id, max_results, listed, failing) ==
  SelectSeq([k \in 1..Shorter(listed, max_results) |-> Video(channel_id, k)],
            LAMBDA v : \A j \in 1..v[2] : j \notin failing)

\* download_channel_videos: of the videos listed (at most max_results), in
\* listing order, those download_video returns a path for
download_channel_videos(channel_id, max_results, listed, failing) ==
  SelectSeq([k \in 1..Shorter(listed, max_results) |-> Video(channel_id, k)],
            LAMBDA v : v[2] \notin failing)

\* process_videos: a SummaryRecord for each video that has a transcript, the
\* files being saved and the summary made
process_videos(list, untranscribed) ==
  SelectSeq(list, LAMBDA v : v[2] \notin untranscribed)

\* what search_channels returns for a query: no channel or one
SingleResponses == SeqsUpTo(ChannelIds, 1)

\* bound: the most videos a channel lists in a world
MaxListed == 2

\* the answers of the collaborators: the channels found for each of two
\* queries, the number of channels asked for, the number of videos each
\* channel lists, the places in a listing of the videos whose download fails
\* and of the video, if any, without a transcript, and the result of the
\* delivery
Worlds ==
  [responses : {<<first, second>> : first, second \in SingleResponses},
   max_channels : {1, Cardinality(ChannelIds)},
   listed : 0..MaxListed,
   failing : SUBSET (1..MaxListed),
   untranscribed : {{}} \cup {{k} : k \in 1..MaxListed},
   email_success : BOOLEAN]

\* run_workflow is called without --skip-download
BatchInit ==
  /\ WorkflowInit
  /\ ~args.skip_download
  /\ world \in {Some(w) : w \in Worlds}

BatchConstruct == Construct /\ fault' = None

BatchDiscover ==
  /\ Discover
  /\ fault' = None
  /\ wf_channels' = Some(find_crypto_channels(Val(world).responses,
                                              Val(world).max_channels))

BatchAcquireChannel ==
  /\ AcquireChannel
  /\ fault' = None
  /\ ~args.skip_download
       => LET result == download_channel_videos(
                          Val(wf_channels)[handled + 1],
                          args.videos_per_channel,
                          Val(world).listed, Val(world).failing)
          IN  /\ acquired_total' = acquired_total + Len(result)
              /\ IF result = <<>> THEN wpc' = "channels"
                                  ELSE wf_videos' = result

BatchProcessVideos ==
  /\ ProcessVideos
  /\ fault' = None
  /\ all_summaries' =
       all_summaries \o process_videos(wf_videos, Val(world).untranscribed)

BatchGenerateReports ==
  /\ GenerateReports
  /\ fault' = None
  /\ wpc' = "deliver" => attachments' # <<>>

BatchSendReport ==
  /\ SendReport
  /\ fault' = None
  /\ delivered' = Some(Val(world).email_success)

BatchNext ==
  \/ BatchConstruct
  \/ BatchDiscover
  \/ BatchAcquireChannel
  \/ BatchProcessVideos
  \/ AllChannelsHandled
  \/ BatchGenerateReports
  \/ BatchSendReport

\* a call of run_workflow in a given world, with nothing else in progress
BatchStart ==
  /\ SchedulerInit /\ FilterIdle /\ DiscoveryIdle /\ AcquisitionIdle
  /\ ProcessingIdle /\ NamingIdle /\ ListingIdle /\ BatchInit

BatchSpec == BatchStart /\ [][BatchNext]_vars


\* ---- claims ------------------------------------------------------------------

BeginsExecution(t) == Executing(t)' /\ ~Executing(t)
EndsExecution(t) == Executing(t) /\ ~Executing(t)'
Leaves(t, at) == pc[t] = at /\ pc'[t] # at
Enters(t, at) == pc[t] # at /\ pc'[t] = at
Returned(op) == ret' # ret /\ ret'.op = op

\* C1: at most one execution of the task is in progress at any time, also
\* when start() follows a stop() whose loop has not yet terminated.
OneExecutionAtATime == Cardinality({t \in Threads : Executing(t)}) <= 1

\* C2: once stop() has returned true and until a later start(), no execution
\* of the task begins.
NoExecutionAfterStop ==
  [][(~running /\ caller = "idle") => \A t \in Threads : ~BeginsExecution(t)]_vars

\* C3: at most one background loop is alive at any time.
OneLoopAlive == Cardinality({t \in Threads : Alive(t)}) <= 1

\* C4: start() on a running scheduler returns false, launches no loop and
\* leaves running, next_run and thread unchanged; start() right after a
\* start() that returned true returns false.
StartWhileRunningRejected ==
  [][/\ (running /\ Returned("start"))
          => (ret'.val = "False" /\ UNCHANGED <<running, next_run, thread, pc, tnow>>)
     /\ (ret = Result("start", "True") /\ Returned("start")) => ret'.val = "False"
     /\ (\E t \in Threads : ~Alive(t) /\ Alive(t)')
          => (~running /\ ret' = Result("start", "True"))]_vars

StartRejectedSeen ==
  /\ ret = Result("start", "False")
  /\ running
  /\ thread # None
  /\ Cardinality({t \in Threads : Alive(t)}) = 1

\* C5: stop() on a scheduler that is not running returns false and leaves
\* running, next_run and thread unchanged.
StopWhileStoppedRejected ==
  [][/\ (~running /\ caller = "idle" /\ Returned("stop"))
          => (ret'.val = "False" /\ UNCHANGED <<running, next_run, thread, pc, tnow>>)
     /\ (caller = "idle" /\ caller' = "joining") => (running /\ ~running')]_vars

StopRejectedSeen ==
  /\ ret = Result("stop", "False")
  /\ ~running
  /\ next_run # None
  /\ thread = None

\* C6: in every reachable state get_next_run() returns None when running is
\* false, and the scheduled next_run timestamp when running is true.
NextRunOnlyWhileRunning ==
  /\ ~running => get_next_run = None
  /\ running => (get_next_run # None /\ get_next_run = next_run)

NoneAfterStartThenStop ==
  /\ ~running
  /\ next_run # None
  /\ ret = Result("get_next_run", "None")

\* C7: an execution that ends by raising, or by a return that reports failure,
\* does not stop the scheduler: running keeps its value, the loop stays alive,
\* recomputes next_run and goes on ticking; it executes the task again in the
\* tick that finds next_run reached, and ends only by reading running = false.
FailedRunKeepsLoop ==
  /\ [](\A t \in Threads : outcome[t] # "none" => pc[t] \in {"set0", "set"})
  /\ [][\A t \in Threads :
          /\ EndsExecution(t)
               => (running' = running /\ outcome'[t] \in Outcomes /\ Alive(t)')
          /\ (outcome[t] \in Outcomes /\ pc'[t] # pc[t])
               => /\ running' = running
                  /\ pc'[t] \in {"while", "sleep"}
                  /\ next_run' = Some(Interval + (IF pc[t] = "set0" THEN Now
                                                   ELSE Val(tnow[t])))
          /\ (Leaves(t, "tick") /\ Now >= Val(next_run)) => BeginsExecution(t)
          /\ (Alive(t) /\ ~Alive(t)') => (pc[t] = "while" /\ ~running)]_vars

RaisedRunSurvived ==
  \E t \in Threads : outcome[t] = "raised" /\ pc[t] = "set" /\ running

\* C8: on entry the loop executes the task once, before any comparison with
\* next_run and before any wait, and only then sets next_run to the current
\* time plus the interval.
InitialRunFirst ==
  [][\A t \in Threads :
       /\ (~Alive(t) /\ Alive(t)') => pc'[t] = "entry"
       /\ Leaves(t, "entry") => (pc'[t] = "exec0" /\ UNCHANGED next_run)
       /\ Enters(t, "exec0") => pc[t] = "entry"
       /\ Leaves(t, "exec0") => (pc'[t] = "set0" /\ UNCHANGED next_run)
       /\ Leaves(t, "set0") => (pc'[t] = "while" /\ next_run' = Some(Now + Interval))
       /\ (Enters(t, "tick") \/ Enters(t, "sleep") \/ Enters(t, "exec"))
            => pc[t] \in {"while", "tick", "set"}]_vars

InitialRunScheduled ==
  \E t \in Threads :
    pc[t] = "while" /\ long[t] /\ running /\ next_run = Some(Now + Interval)

\* C9: after the initial execution, in each tick the loop executes the task if
\* and only if the current time has reached next_run, at most once in the
\* tick, and after the execution sets next_run to the tick's now + interval;
\* the loop never begins an execution while now < next_run.
TickRunsWhenDue ==
  [][\A t \in Threads :
       /\ Leaves(t, "tick")
            => /\ UNCHANGED next_run
               /\ IF Now >= Val(next_run)
                    THEN pc'[t] = "exec" /\ tnow'[t] = Some(Now)
                    ELSE pc'[t] = "sleep"
       /\ Enters(t, "exec") => (pc[t] = "tick" /\ Val(next_run) <= Now)
       /\ Leaves(t, "exec") => (pc'[t] = "set" /\ tnow'[t] = tnow[t])
       /\ Leaves(t, "set")
            => (pc'[t] = "sleep" /\ next_run' = Some(Val(tnow[t]) + Interval))
       /\ Leaves(t, "sleep") => pc'[t] = "while"]_vars

TickRunAtBoundary ==
  \E t \in Threads :
    pc[t] = "exec" /\ running /\ tnow[t] = Some(Now) /\ next_run = Some(Now)
      /\ thread = Some(t) /\ Cardinality({u \in Threads : Alive(u)}) = 1

\* C10 as claimed: after every execution that took longer than the interval,
\* the initial one included, the first tick after it executes the task.
LongRunThenImmediateRun ==
  [][\A t \in Threads : (Leaves(t, "tick") /\ long[t]) => pc'[t] = "exec"]_vars

\* C10 as amended: after an execution of a tick that took longer than the
\* interval the loop sets next_run to an instant that has already passed, so
\* no further interval is waited for; after the initial execution it sets
\* next_run one full interval after the current time.
LongTickRunLeavesNextRunDue ==
  [][\A t \in Threads :
       /\ (Leaves(t, "set") /\ long[t]) => Val(next_run') <= Now
       /\ Leaves(t, "set0") => Val(next_run') = Now + Interval]_vars

LongTickRunDue ==
  \E t \in Threads :
    pc[t] = "sleep" /\ long[t] /\ Val(next_run) <= Now /\ running

\* C11: running, next_run and thread are changed only by start(), by stop()
\* and by the background loop; get_next_run() and get_status() leave all
\* three unchanged.  (The passing of time leaves next_run the same instant:
\* its distance from the present shrinks.)
FieldsChangedOnlyByStartStopLoop ==
  [][/\ (Returned("get_next_run") \/ Returned("get_status"))
          => UNCHANGED <<running, next_run, thread>>
     /\ (\/ running' # running
         \/ thread' # thread
         \/ next_run' \notin {next_run, Elapse(next_run, Now)})
          => \/ Returned("start")
             \/ Returned("stop")
             \/ caller' # caller
             \/ \E t \in Threads : pc'[t] # pc[t]]_vars

StatusReadAfterStop ==
  /\ ret = Result("get_status", "dict")
  /\ ~running
  /\ next_run # None
  /\ thread = None
\* the number of keywords of the fixed set that occur in the title or in the
\* description when the case of the letters is ignored; an absent field holds
\* no keyword
OccursIn(keyword, field) ==
  /\ field # None
  /\ \E word \in Val(field) :
       \/ word[1] = keyword
       \/ word[1] = "cryptocurrency" /\ keyword = "crypto"
       \/ word[1] = "ethereum" /\ keyword = "eth"
Matched ==
  Cardinality({i \in 1..18 : \/ OccursIn(crypto_keywords[i], channel.title)
                             \/ OccursIn(crypto_keywords[i], channel.description)})

\* C14: is_crypto_relevant returns true iff the number of keywords found in
\* the lowercased title or description, divided by the size of the keyword
\* set, is at least the threshold; with threshold 0.7 and 18 keywords a
\* channel matching exactly 13 keywords is relevant, one matching 12 is not.
RelevantIffScoreReachesThreshold ==
  (relevant \in {"True", "False"}) =>
    /\ relevant = "True" <=> Matched * 10 >= 7 * 18
    /\ Matched = 13 => relevant = "True"
    /\ Matched = 12 => relevant = "False"

ThirteenOfEighteenRelevant ==
  /\ relevant = "True"
  /\ Matched = 13
  /\ \E word \in Val(channel.title) : word[2] = "upper"

\* C15: the filter has no error case: with an absent title or description it
\* does not raise and returns the score of the channel with the empty string
\* in place of the absent field.
AbsentFieldScoredAsEmpty ==
  (relevant # "called") =>
    relevant = (IF Matched * 10 >= 7 * 18 THEN "True" ELSE "False")
\* the places of a list where an id stands for the first time
FirstAt(list, id) == CHOOSE i \in 1..Len(list) :
                       list[i] = id /\ \A j \in 1..(i - 1) : list[j] # id
NoRepeats(list) ==
  \A i, j \in 1..Len(list) : list[i] = list[j] => i = j

\* C12: the result of find_crypto_channels holds each channel id at most
\* once, and its order is the order of first discovery: every entry was
\* returned by a query, and an entry stands before another exactly when it
\* was first returned before the other.
EachChannelOnceInDiscoveryOrder ==
  /\ NoRepeats(all_channels)
  /\ discovered # None =>
       LET result == Val(discovered)
       IN  /\ NoRepeats(result)
           /\ \A i \in 1..Len(result) : \E k \in 1..Len(found) : found[k] = result[i]
           /\ \A i, j \in 1..Len(result) :
                i < j => FirstAt(found, result[i]) < FirstAt(found, result[j])

ChannelOfTwoQueriesOnce ==
  /\ discovered = Some(<<"UC2", "UC1">>)
  /\ found = <<"UC2", "UC1", "UC9", "UC2">>
  /\ searched = <<1, 2>>

\* the list without the entries that repeat an earlier one
RECURSIVE DropRepeated(_)
DropRepeated(list) ==
  IF list = <<>> THEN <<>>
  ELSE LET front == SubSeq(list, 1, Len(list) - 1)
           last == list[Len(list)]
       IN  IF \E i \in 1..Len(front) : front[i] = last
             THEN DropRepeated(front)
             ELSE Append(DropRepeated(front), last)
\* the first n entries of a list, all of them when it has fewer
FirstOf(list, n) ==
  [i \in 1..(IF Len(list) < n THEN Len(list) ELSE n) |-> list[i]]
IsRelevantId(id) == IsRelevant[id]

\* C13: find_crypto_channels calls search_channels once for every query, in
\* list order, also when max_channels relevant channels are already
\* collected, and returns the first max_channels entries of the concatenated
\* query results restricted to relevant channels, repeated ids dropped.
AllQueriesSearchedThenTruncated ==
  /\ searched = SubSeq(search_queries, 1, queried)
  /\ discovered # None =>
       /\ searched = search_queries
       /\ Val(discovered) = FirstOf(DropRepeated(SelectSeq(found, IsRelevantId)),
                                    max_channels)

SearchedOnAfterEnoughChannels ==
  /\ discovered = Some(<<"UC1">>)
  /\ max_channels = 1
  /\ searched = <<1, 2>>
  /\ found = <<"UC1", "UC9", "UC2", "UC1">>
\* the first k attempted videos whose acquisition returned a path, each with
\* that path
RECURSIVE WithPath(_)
WithPath(k) ==
  IF k = 0 THEN <<>>
  ELSE IF acquired[k] = None THEN WithPath(k - 1)
  ELSE Append(WithPath(k - 1),
              [id |-> attempted[k], download_path |-> Val(acquired[k])])

\* C16: download_channel_videos attempts the acquisition of every listed
\* video once, in listing order, whatever the earlier attempts returned, and
\* returns the listed videos whose acquisition returned a path, in listing
\* order, each with its path; when the second of three fails, the first and
\* the third.
EveryListedVideoAttempted ==
  /\ Len(acquired) = Len(attempted)
  /\ videos # None => attempted = SubSeq(Val(videos), 1, Len(attempted))
  /\ downloaded # None =>
       /\ attempted = Val(videos)
       /\ Val(downloaded) = WithPath(Len(attempted))
       /\ (Len(acquired) = 3 /\ acquired[1] # None /\ acquired[2] = None
             /\ acquired[3] # None)
            => [i \in 1..Len(Val(downloaded)) |-> Val(downloaded)[i].id]
                 = <<Val(videos)[1], Val(videos)[3]>>

SecondOfThreeFailed ==
  /\ Len(attempted) = 3
  /\ acquired[1] # None /\ acquired[2] = None /\ acquired[3] # None
  /\ downloaded # None
  /\ Len(Val(downloaded)) = 2
  /\ Val(downloaded)[2] = [id |-> Val(videos)[3],
                           download_path |-> PathOf(Val(videos)[3])]
\* C17: the failure of a collaborator while one channel or one video is
\* handled, a raised error as well as an empty result, does not abort the
\* batch: when the run ends every discovered channel has been handled, and
\* the summaries produced have been reported and, unless skip_email is set,
\* delivered.
CollaboratorFailureKeepsBatch ==
  (/\ returned # None
   /\ wf_channels # None
   /\ fault \in {None, Some("acquire"), Some("process")})
    => /\ handled = Len(Val(wf_channels))
       /\ all_summaries # <<>>
            => /\ "report" \in begun
               /\ ~args.skip_email => "deliver" \in begun

\* C18: no exception leaves run_workflow: a fault raised in any stage, from
\* the construction of the collaborators to the delivery, ends the run with
\* the return value false.
NoExceptionEscapes ==
  /\ returned \in {None, Some("True"), Some("False")}
  /\ fault # None => (wpc = "done" /\ returned = Some("False"))

FaultWhileDelivering ==
  /\ fault = Some("deliver")
  /\ returned = Some("False")
  /\ all_summaries # <<>>
  /\ begun = {"construct", "discover", "acquire", "process", "report", "deliver"}

\* the terminal state of a run that has returned
Terminal ==
  IF fault # None THEN "Failed"
  ELSE IF wf_channels = Some(<<>>) THEN "NoChannels"
  ELSE IF all_summaries = <<>>
    THEN (IF acquired_total = 0 THEN "NoVideos" ELSE "NoSummaries")
  ELSE IF delivered = Some(FALSE) THEN "DeliveryFailed"
  ELSE "Succeeded"

\* C19: run_workflow returns true exactly when at least one SummaryRecord was
\* produced and delivery is disabled or reported success, the run not having
\* failed; it returns false in the states NoChannels, NoVideos, NoSummaries,
\* DeliveryFailed and Failed.
TrueIffSummariesAndDelivery ==
  returned # None =>
    /\ returned = Some("True")
         <=> /\ fault = None
             /\ all_summaries # <<>>
             /\ args.skip_email \/ delivered = Some(TRUE)
    /\ Terminal \in {"NoChannels", "NoVideos", "NoSummaries", "DeliveryFailed",
                     "Failed"} => returned = Some("False")
    /\ Terminal = "Succeeded" => returned = Some("True")

SucceededWithDelivery ==
  /\ returned = Some("True")
  /\ ~args.skip_email
  /\ delivered = Some(TRUE)
  /\ Len(all_summaries) = 1
  /\ acquired_total = 2

\* C20 as claimed: discovery completes before any acquisition, no channel is
\* acquired once the processing of a video has begun, and the reports and
\* the delivery come after all processing.
AllAcquisitionBeforeProcessing ==
  /\ stage \in {"acquire", "process", "report", "deliver"} => wf_channels # None
  /\ stage = "acquire" => "process" \notin begun
  /\ stage \in {"report", "deliver"} => handled = Len(Val(wf_channels))

\* C20 as amended: discovery completes before any acquisition; the channels
\* are handled one after another in discovery order, the acquisition of a
\* channel directly followed by the processing of its videos; the reports
\* come after every channel has been handled and the delivery after them.
ChannelsHandledOneByOne ==
  /\ stage \in {"acquire", "process", "report", "deliver"}
       => (wf_channels # None /\ "discover" \in begun)
  /\ wpc = "process"
       => /\ stage = "acquire"
          /\ wf_videos # <<>>
          /\ \A i \in 1..Len(wf_videos) :
               wf_videos[i][1] = Val(wf_channels)[handled + 1]
  /\ wf_videos # <<>> => wpc = "process" \/ fault = Some("process")
  /\ stage = "process" => "acquire" \in begun
  /\ stage \in {"acquire", "process"} => begun \cap {"report", "deliver"} = {}
  /\ stage \in {"report", "deliver"}
       => (handled = Len(Val(wf_channels)) /\ wf_videos = <<>>)
  /\ stage = "deliver" => "report" \in begun

AcquisitionAfterProcessing ==
  /\ stage = "acquire"
  /\ "process" \in begun
  /\ handled = 1
  /\ wpc = "process"
  /\ all_summaries # <<>>
\* C30: a successful stop() returns true with running false and the thread
\* handle none, whatever the loop is doing: it leaves the loop where it is,
\* and an execution in progress ends only by the task returning or raising,
\* a step of the loop itself.
StopLeavesExecutionAlone ==
  [][/\ (Returned("stop") /\ ret'.val = "True")
          => /\ ~running'
             /\ thread' = None
             /\ pc' = pc
             /\ execStart' = execStart
             /\ outcome' = outcome
     /\ \A t \in Threads :
          EndsExecution(t)
            => /\ outcome'[t] \in Outcomes
               /\ pc'[t] \in {"set0", "set"}
               /\ caller' = caller
               /\ ret' = ret]_vars

StopReturnedDuringExecution ==
  /\ ret = Result("stop", "True")
  /\ ~running
  /\ thread = None
  /\ caller = "idle"
  /\ \E t \in Threads : Executing(t) /\ execStart[t] # None

\* C24: throughout a batch run, and so at its end, the SummaryRecords
\* aggregated are at most as many as the videos acquired, each of them the
\* record of another video, and the videos acquired are at most
\* videos_per_channel for each discovered channel.
SummariesAtMostVideosAtMostRequested ==
  /\ Len(all_summaries) <= acquired_total
  /\ \A i, j \in 1..Len(all_summaries) :
       all_summaries[i] = all_summaries[j] => i = j
  /\ wf_channels = None => acquired_total = 0
  /\ wf_channels # None
       => acquired_total <= Len(Val(wf_channels)) * args.videos_per_channel

FewerSummariesThanVideosThanRequested ==
  /\ returned = Some("True")
  /\ Len(Val(wf_channels)) = 2
  /\ Len(all_summaries) = 2
  /\ acquired_total = 3
  /\ args.videos_per_channel = 2

\* C25: when download_channel_videos returns the empty list for a channel,
\* process_videos is not called for it and the loop goes on to the next
\* channel: the step changes neither the aggregate nor the terminal state
\* the run is heading for.
EmptyChannelSkipped ==
  [][(/\ wpc = "channels"
      /\ handled < Len(Val(wf_channels))
      /\ ~args.skip_download
      /\ stage' = "acquire"
      /\ acquired_total' = acquired_total
      /\ fault' = None)
       => /\ wpc' = "channels"
          /\ handled' = handled + 1
          /\ begun' = begun \cup {"acquire"}
          /\ wf_videos' = <<>>
          /\ all_summaries' = all_summaries
          /\ returned' = None
          /\ Terminal' = Terminal]_vars

SecondChannelAfterEmptyFirst ==
  /\ wpc = "process"
  /\ handled = 1
  /\ "process" \notin begun
  /\ acquired_total = Len(wf_videos)
  /\ wf_videos # <<>>

\* C26: when find_crypto_channels returns the empty list the run ends at
\* once, returning false: nothing is acquired, processed, reported or
\* delivered, and no exception is raised.
NoChannelsEndsRun ==
  wf_channels = Some(<<>>)
    => /\ wpc = "done"
       /\ returned = Some("False")
       /\ fault = None
       /\ begun = {"construct", "discover"}
       /\ handled = 0
       /\ acquired_total = 0
       /\ all_summaries = <<>>
       /\ attachments = <<>>
       /\ delivered = None

NoChannelsReturned ==
  /\ wf_channels = Some(<<>>)
  /\ returned = Some("False")
  /\ Terminal = "NoChannels"
  /\ stage = "discover"

\* C29: a run with skip_download set, which acquires nothing, processes the
\* videos of the discovered channels all the same.
SkipDownloadStillProcesses ==
  (/\ args # None
   /\ args.skip_download
   /\ returned # None
   /\ fault = None
   /\ wf_channels \notin {None, Some(<<>>)})
    => /\ "acquire" \notin begun
       /\ "process" \in begun

StageIndex(stage_name) == CHOOSE k \in 1..Len(Stages) : Stages[k] = stage_name

\* the SummaryRecords made so far, appended or not yet
Records ==
  Range(processed_videos)
    \cup (IF summary_info # None
            THEN {[id |-> Val(summary_info).id,
                   transcript |-> Val(summary_info).transcript,
                   summary |-> Val(summary_info).summary,
                   summary_path |-> "summary.txt"]}
            ELSE {})

\* C21: for each video the calls are made in the order extract_transcript,
\* save_transcript, summarize_transcript, save_summary, each call but the
\* first only after the call before it returned a non-empty result for the
\* same video; the records appended are those of the videos for which all
\* four calls returned a non-empty result.
StagesGatedInFixedOrder ==
  /\ \A i \in 1..Len(pv_calls) :
       IF pv_calls[i].stage = Stages[1]
         THEN \A j \in 1..(i - 1) : pv_calls[j].video # pv_calls[i].video
         ELSE /\ i > 1
              /\ pv_calls[i - 1].video = pv_calls[i].video
              /\ pv_calls[i - 1].ok
              /\ StageIndex(pv_calls[i - 1].stage) + 1
                   = StageIndex(pv_calls[i].stage)
  /\ \A i \in 1..Len(processed_videos) :
       /\ \A k \in 1..Len(Stages) :
            Call(processed_videos[i].id, Stages[k], TRUE) \in Range(pv_calls)
       /\ \A j \in 1..Len(processed_videos) :
            processed_videos[i].id = processed_videos[j].id => i = j
  /\ Len(processed_videos)
       = Cardinality({i \in 1..Len(pv_calls) :
                        pv_calls[i].stage = "save_summary" /\ pv_calls[i].ok})

UnsavedTranscriptNotSummarized ==
  /\ processed # None
  /\ Len(pv_videos) = 2
  /\ pv_calls[2] = Call(pv_videos[1], "save_transcript", FALSE)
  /\ Len(Val(processed)) = 1
  /\ Val(processed)[1].id = pv_videos[2]

\* C22: a record whose transcript is not empty and has fewer words than
\* SUMMARY_MIN_LENGTH has that transcript, unchanged, as its summary, and
\* the model was not invoked for its video.
ShortTranscriptKeptVerbatim ==
  \A r \in Records :
    (r.transcript # <<>> /\ Len(split(r.transcript)) < SUMMARY_MIN_LENGTH)
      => /\ r.summary = r.transcript
         /\ r.id \notin model_calls

OneWordShortOfMinimumVerbatim ==
  /\ processed # None
  /\ \E r \in Range(Val(processed)) :
       /\ Len(split(r.transcript)) = SUMMARY_MIN_LENGTH - 1
       /\ r.summary = r.transcript
  /\ model_calls = {}

\* C23: when the model fails for a video, summarize_transcript still returns
\* a record, whose summary is the failure marker; process_videos hands it to
\* save_summary and, once stored, appends it to the list it returns.
ModelFailureGivesMarkerRecord ==
  /\ \A i \in 1..Len(pv_calls) :
       (pv_calls[i].stage = "summarize_transcript"
          /\ pv_calls[i].video \in model_failed) => pv_calls[i].ok
  /\ \A r \in Records : r.id \in model_failed => r.summary = FailureMarker
  /\ \A video_info \in model_failed :
       /\ pv_fault # Some("summarize_transcript")
       /\ Call(video_info, "save_summary", TRUE) \in Range(pv_calls)
            => \E r \in Range(processed_videos) :
                 r.id = video_info /\ r.summary = FailureMarker
       /\ (pv_calls[Len(pv_calls)]
             = Call(video_info, "summarize_transcript", TRUE)
           /\ pv_fault = None)
            => pv_pc = "save_summary"

MarkerRecordReturned ==
  /\ processed # None
  /\ Len(Val(processed)) = 2
  /\ Val(processed)[1].id \in model_failed
  /\ Val(processed)[1].summary = FailureMarker
  /\ Val(processed)[2].id \notin model_failed

InvalidChars == {"<", ">", ":", "\"", "/", "\\", "|", "?", "*"}
EndOf(list, n) == SubSeq(list, Len(list) - n + 1, Len(list))

\* C27: the sanitized title is the first 100 characters of the title, or all
\* of them if there are fewer, with _ in the place of each character out of
\* <>:"/\|?* and every other character as it was; the names of the
\* transcript and summary files are the sanitized title followed by _, the
\* whole video id and the suffix.
SanitizedTitleThenWholeId ==
  /\ sanitized # None
       => /\ Len(Val(sanitized)) = Shorter(Len(video_title), NameLimit)
          /\ \A i \in 1..Len(Val(sanitized)) :
               Val(sanitized)[i] = IF video_title[i] \in InvalidChars
                                     THEN "_" ELSE video_title[i]
  /\ transcript_filename # None
       => LET tail == <<"_">> \o video_id \o transcript_suffix
          IN  /\ Len(Val(transcript_filename))
                   = Len(Val(sanitized)) + Len(tail)
              /\ SubSeq(Val(transcript_filename), 1, Len(Val(sanitized)))
                   = Val(sanitized)
              /\ EndOf(Val(transcript_filename), Len(tail)) = tail
  /\ summary_filename # None
       => LET tail == <<"_">> \o video_id \o summary_suffix
          IN  /\ Len(Val(summary_filename)) = Len(Val(sanitized)) + Len(tail)
              /\ SubSeq(Val(summary_filename), 1, Len(Val(sanitized)))
                   = Val(sanitized)
              /\ EndOf(Val(summary_filename), Len(tail)) = tail

LongTitleCutIdKept ==
  /\ Len(video_title) = NameLimit + 1
  /\ video_title[1] = "\\"
  /\ video_title[2] = "a"
  /\ transcript_filename # None
  /\ summary_filename # None
  /\ Len(Val(transcript_filename)) > NameLimit
  /\ Val(sanitized)[1] = "_"
  /\ Val(sanitized)[NameLimit] = "a"

\* the scenario: both queries return the same single relevant channel, which
\* lists two videos; one of the two downloads fails; every transcript is
\* there and the delivery succeeds
TwoQueriesOneChannelTwoVideos ==
  /\ world # None
  /\ \E id \in ChannelIds :
       IsRelevant[id] /\ Val(world).responses = <<<<id>>, <<id>>>>
  /\ ~args.skip_download
  /\ ~args.skip_email
  /\ args.videos_per_channel >= 2
  /\ Val(world).listed = 2
  /\ Val(world).failing \in {{1}, {2}}
  /\ Val(world).untranscribed = {}
  /\ Val(world).email_success

\* C28: in that scenario the run handles the channel once, acquires one
\* video, aggregates exactly one SummaryRecord, delivers it and returns true.
EndToEndOneSummary ==
  TwoQueriesOneChannelTwoVideos
    => /\ wf_channels # None => Len(Val(wf_channels)) = 1
       /\ acquired_total <= 1
       /\ Len(all_summaries) <= 1
       /\ returned # None
            => /\ returned = Some("True")
               /\ handled = 1
               /\ acquired_total = 1
               /\ Len(all_summaries) = 1
               /\ all_summaries[1][2] \notin Val(world).failing
               /\ delivered = Some(TRUE)

EndToEndSucceeded ==
  /\ TwoQueriesOneChannelTwoVideos
  /\ returned = Some("True")
  /\ Val(world).failing = {1}
  /\ all_summaries = <<Video("UC1", 2)>>

\* C34: once stop() has returned true, and as long as no start() follows, a
\* loop that is still alive only finishes the execution in progress and
\* goes to its next test of running, where it ends: none of its steps begins
\* an execution of the task.
StoppedLoopExitsWithoutExecuting ==
  [][\A t \in Threads :
       (/\ ret = Result("stop", "True")
        /\ ~running
        /\ caller = "idle"
        /\ Alive(t)
        /\ pc'[t] # pc[t])
         => /\ pc'[t] \notin {"exec0", "exec"}
            /\ pc[t] = "while" => pc'[t] = "off"]_vars

\* C36: in every state in which no call is in progress, the dictionary
\* get_status() would return agrees with what get_next_run() would return:
\* its next_run entry is none whenever its running entry is false, and is
\* the scheduled time whenever its running entry is true.
StatusAgreesWithNextRun ==
  caller = "idle"
    => /\ ~get_status.running => get_status.next_run = "None"
       /\ get_status.running => get_status.next_run = "datetime"
       /\ get_status.next_run = "None" <=> get_next_run = None

\* the step of run_workflow that calls the report generators, and the one
\* that calls send_summary_report
Reports == wpc = "report" /\ wpc' # wpc
Delivers == wpc = "deliver" /\ wpc' # wpc

\* C32: report generation and delivery are invoked only with a non-empty
\* aggregate; delivery is invoked only after report generation, never when
\* skip_email is set, and not a second time in the same run.
ReportAndDeliveryGuarded ==
  [][/\ Reports => all_summaries # <<>>
     /\ Delivers => /\ all_summaries # <<>>
                    /\ "report" \in begun
                    /\ "deliver" \notin begun
                    /\ ~args.skip_email
     /\ "report" \in begun' \ begun => Reports
     /\ "deliver" \in begun' \ begun => Delivers]_vars

DeliveryRefusedAfterReport ==
  /\ delivered = Some(FALSE)
  /\ returned = Some("False")
  /\ {"report", "deliver"} \subseteq begun
  /\ all_summaries # <<>>

\* the place of a channel in the list find_crypto_channels returned
DiscoveryOrder(channel_id) ==
  CHOOSE i \in 1..Len(Val(wf_channels)) : Val(wf_channels)[i] = channel_id

\* C37: the aggregate lists the records channel by channel in the order of
\* discovery, and within a channel in the order the videos were listed: no
\* record of an earlier channel follows one of a later channel.
AggregateInDiscoveryThenListingOrder ==
  \A i, j \in 1..Len(all_summaries) :
    i < j =>
      LET a == all_summaries[i]
          b == all_summaries[j]
      IN  /\ DiscoveryOrder(a[1]) <= DiscoveryOrder(b[1])
          /\ a[1] = b[1] => a[2] < b[2]

TwoChannelsAggregated ==
  /\ returned = Some("True")
  /\ Len(all_summaries) >= 3
  /\ \E i, j \in 1..Len(all_summaries) :
       all_summaries[i][1] # all_summaries[j][1]

\* the place of a video in the list given to process_videos
InputIndex(video_info) ==
  CHOOSE k \in 1..Len(pv_videos) : pv_videos[k] = video_info

\* C31: a call that returns an empty result for a video raises nothing and
\* gives no record for that video; the call that follows it is
\* extract_transcript for the next video of the list, so that once
\* process_videos has returned every video of the list was attempted; and
\* the records are those of videos of the list, in the order of the list.
EmptyResultDropsVideoOnly ==
  /\ \A i \in 1..Len(pv_calls) :
       ~pv_calls[i].ok =>
         /\ \A r \in Range(processed_videos) : r.id # pv_calls[i].video
         /\ i = Len(pv_calls) => pv_fault = None
         /\ i < Len(pv_calls) =>
              /\ pv_calls[i + 1].stage = "extract_transcript"
              /\ InputIndex(pv_calls[i + 1].video)
                   = InputIndex(pv_calls[i].video) + 1
  /\ processed # None =>
       \A k \in 1..Len(pv_videos) :
         \E ok \in BOOLEAN :
           Call(pv_videos[k], "extract_transcript", ok) \in Range(pv_calls)
  /\ \A i, j \in 1..Len(processed_videos) :
       /\ processed_videos[i].id \in Range(pv_videos)
       /\ i < j => InputIndex(processed_videos[i].id)
                     < InputIndex(processed_videos[j].id)

DroppedTwiceThenProcessed ==
  /\ processed # None
  /\ Len(pv_videos) = 3
  /\ pv_calls[1] = Call(pv_videos[1], "extract_transcript", FALSE)
  /\ Call(pv_videos[2], "save_summary", FALSE) \in Range(pv_calls)
  /\ Len(Val(processed)) = 1
  /\ Val(processed)[1].id = pv_videos[3]

\* C38: when a title has been sanitized, the three _sanitize_filename give
\* the same name for it, the one that was computed, and each of them leaves
\* that name as it is: sanitizing twice is sanitizing once.
SanitizeIdempotentAndAlike ==
  (sanitized # None /\ transcript_filename = None /\ summary_filename = None)
    => /\ downloader_sanitize_filename(video_title) = Val(sanitized)
       /\ sanitize_filename(video_title) = Val(sanitized)
       /\ summarizer_sanitize_filename(video_title) = Val(sanitized)
       /\ downloader_sanitize_filename(Val(sanitized)) = Val(sanitized)
       /\ sanitize_filename(Val(sanitized)) = Val(sanitized)
       /\ summarizer_sanitize_filename(Val(sanitized)) = Val(sanitized)

LongInvalidTitleSanitized ==
  /\ sanitized # None
  /\ Len(video_title) = NameLimit + MaxUnit
  /\ video_title[1] = "?"
  /\ video_title[2] = "_"
  /\ Val(sanitized) # video_title
  /\ Val(sanitized) = [i \in 1..NameLimit |-> "_"]

\* C35: with a fair loop and a fair clock, once the scheduler is started (it
\* is never stopped, and every execution of the task ends), executions of
\* the task begin again and again, without end.
ExecutedInfinitelyOften ==
  (<>running) => []<><<\E t \in Threads : BeginsExecution(t)>>_vars

ExecutingAgainAfterInterval ==
  /\ running
  /\ ret = Result("start", "True")
  /\ \E t \in Threads :
       /\ pc[t] = "exec"
       /\ tnow[t] = Some(Now)
       /\ next_run = Some(Now)

\* C33: every video in the list of get_channel_videos comes from an item of
\* the playlist whose length is at least MIN_VIDEO_LENGTH_SECONDS and at
\* most MAX_VIDEO_LENGTH_SECONDS, and carries that length as its
\* duration_seconds; the list never has more than max_results entries; and
\* a returned list has every found item of such a length, the two ends of
\* the window included.
ListedWithinWindowAtMostMax ==
  /\ \A i \in 1..Len(gcv_videos) :
       LET item == Val(playlist_items)[gcv_videos[i].id]
       IN  /\ item.seconds >= MIN_VIDEO_LENGTH_SECONDS
           /\ item.seconds <= MAX_VIDEO_LENGTH_SECONDS
           /\ gcv_videos[i].duration_seconds = item.seconds
  /\ Len(gcv_videos) <= gcv_max_results
  /\ gcv_returned # None =>
       /\ Len(Val(gcv_returned)) <= gcv_max_results
       /\ Val(gcv_returned) = gcv_videos
       /\ playlist_items # None =>
            \A k \in 1..Len(Val(playlist_items)) :
              LET item == Val(playlist_items)[k]
              IN  (/\ item.found
                   /\ item.seconds >= MIN_VIDEO_LENGTH_SECONDS
                   /\ item.seconds <= MAX_VIDEO_LENGTH_SECONDS)
                    => \E i \in 1..Len(Val(gcv_returned)) :
                         Val(gcv_returned)[i].id = k

BothEndsOfWindowListed ==
  /\ gcv_returned # None
  /\ gcv_max_results = 2
  /\ Len(Val(gcv_returned)) = 2
  /\ Val(gcv_returned)[1].duration_seconds = MIN_VIDEO_LENGTH_SECONDS
  /\ Val(gcv_returned)[2].duration_seconds = MAX_VIDEO_LENGTH_SECONDS

====
